---------------------------- MODULE Spec2Model ----------------------------
(***************************************************************************)
(* A model of the RF24Mesh addressing layer (src/RF24Mesh.cpp).            *)
(*                                                                         *)
(* Every Mesh object runs the same class; the master is the object whose   *)
(* nodeID is 0.  The objects are indexed by their nodeID.  The radio and   *)
(* the network layer are external collaborators; they are modelled as one  *)
(* receive queue per object (what network.update() hands over, one frame   *)
(* per call, in arrival order) and a write that appends the frame, with    *)
(* the header the mesh layer built, to the queue of whoever holds the      *)
(* destination address.                                                    *)
(***************************************************************************)
EXTENDS Integers, Sequences, FiniteSets, TLC

(***************************************************************************)
(* Program constants.                                                      *)
(***************************************************************************)
MESH_MASTER_NODE_ID == 0
MESH_DEFAULT_ADDRESS == 65535
MESH_EMPTY_ADDRESS == 0
MESH_BLANK_ID == 65535
MESH_MAX_CHILDREN == 4
MESH_MAXPOLLS == 4
EMPTY_LOGICAL_ADDRESS == 4095
OCTAL_MASK == 7
OCTAL_TO_BIN_BITSHIFT == 3
CHAR_BIT == 8
Uint16 == 65536
Uint8 == 256

(***************************************************************************)
(* Bounds of the model.                                                    *)
(***************************************************************************)
MaxInbox == 2
MaxAttempts == 2
MaxCalls == 3
MaxCallsReliable == 4
MaxEnvFrames == 4
MaxPollCalls == 1
MaxBackoffAttempts == 42
MaxLevelAttempts == 5

\* The non-master objects of the model, by nodeID.  1 is the id the
\* repository's node sandbox uses (mesh_node.cpp), 9 one of the spec's.
NodeIds == {1, 9}
Procs == {MESH_MASTER_NODE_ID} \cup NodeIds

(***************************************************************************)
(* Integer helpers: the C operators on unsigned words.                     *)
(***************************************************************************)
RECURSIVE BitOr(_, _)
BitOr(a, b) ==
    IF a = 0 THEN b
    ELSE IF b = 0 THEN a
    ELSE (IF (a % 2 = 1) \/ (b % 2 = 1) THEN 1 ELSE 0) + 2 * BitOr(a \div 2, b \div 2)

RECURSIVE BitAnd(_, _)
BitAnd(a, b) ==
    IF a = 0 \/ b = 0 THEN 0
    ELSE (IF (a % 2 = 1) /\ (b % 2 = 1) THEN 1 ELSE 0) + 2 * BitAnd(a \div 2, b \div 2)

RECURSIVE Pow2(_)
Pow2(n) == IF n = 0 THEN 1 ELSE 2 * Pow2(n - 1)

ShiftLeft(x, n) == x * Pow2(n)

\* (int16_t) of a 16-bit word, and back.
ToInt16(u) == IF u >= 32768 THEN u - Uint16 ELSE u
ToUint16(i) == i % Uint16
ToUint8(i) == i % Uint8

(***************************************************************************)
(* Octal tree addresses.                                                   *)
(***************************************************************************)
RECURSIVE OctalDigits(_)
OctalDigits(a) == IF a = 0 THEN << >> ELSE <<a % 8>> \o OctalDigits(a \div 8)

\* RF24Network::Node::getLevel: the number of non-zero octal digits.
RECURSIVE getLevel(_)
getLevel(a) ==
    IF a = 0 THEN 0 ELSE (IF a % 8 # 0 THEN 1 ELSE 0) + getLevel(a \div 8)

\* network.isValidNetworkAddress: the master, or digits 1..5 only.
isValidNetworkAddress(a) ==
    /\ a < 32768
    /\ \A k \in 1..Len(OctalDigits(a)) : OctalDigits(a)[k] \in 1..5

\* A faulty slot search that takes the slot without testing the mask.
FirstZeroBitUntested(availableAddr, i) == i + 1

\* "Find first bit that is zero": its index plus one, 0 when none is.
RECURSIVE FirstZeroBit(_, _)
FirstZeroBit(availableAddr, i) ==
    IF i >= CHAR_BIT THEN 0
    ELSE IF BitAnd(availableAddr, Pow2(i)) = 0 THEN i + 1
    ELSE FirstZeroBit(availableAddr, i + 1)

\* The address assignDHCPAddress computes for a parent and a slot mask.
NewAddress(parentNode, availableAddr) ==
    BitOr(parentNode,
          ShiftLeft(BitAnd(FirstZeroBit(availableAddr, 0), OCTAL_MASK),
                    getLevel(parentNode) * OCTAL_TO_BIN_BITSHIFT)) % Uint16

(***************************************************************************)
(* Frames: the header fields and the payload bytes the mesh layer reads.   *)
(* data is the 16-bit word at payload offset 0, bits the byte at offset 3. *)
(***************************************************************************)
Frame(t, s, d, r, w, b) ==
    [msgType |-> t, srcNode |-> s, dstNode |-> d, reserved |-> r, data |-> w, bits |-> b]

ZeroFrame == Frame("NO_MESSAGE", 0, 0, 0, 0, 0)

\* The message type a Header built from a destination alone carries.
HeaderDefaultType == "NO_MESSAGE"

VARIABLES
    addressList,         \* master: the binding table, a sequence of NodeAddress
    lastID,              \* master: pending offer, id part
    lastAddress,         \* master: pending offer, address part
    meshNetworkAddress,  \* per object
    netAddress,          \* per object: the network layer's logical address
    oopsies,             \* per object: last error
    processDHCP,         \* per object: the DHCP latch
    DHCPFrame,           \* per object: the latched frame
    inbox,               \* per object: frames network.update() will return
    pc,                  \* per object: where its current operation stands
    loc,                 \* per object: the locals of the operation in progress
    ret,                 \* per object: the last public call and what it returned
    calls,               \* how many calls of the public operations were made
    meshNodeID,          \* per object: the field nodeID, the id setNodeID stored
    millis,              \* radio.millis(): the 32-bit millisecond clock
    bypassHolds,         \* per object: the BYPASS_HOLDS bit of network.networkFlags
    listening,           \* per object: the radio mode the mesh set last (TRUE after
                         \* startListening, FALSE after stopListening)
    newAddressOut,       \* per object: the caller's variable that renewAddress
                         \* assigns through its reference parameter newAddress
    lastOffer            \* history: the request the master answered last and
                         \* the offer and pending pair that answer left

vars == <<addressList, lastID, lastAddress, meshNetworkAddress, netAddress, oopsies,
          processDHCP, DHCPFrame, inbox, pc, loc, ret, calls, meshNodeID, millis,
          bypassHolds, listening, newAddressOut, lastOffer>>

\* No request was answered yet.
NoOffer == [id |-> 0, parentNode |-> 0, availableAddr |-> 0, newAddress |-> 0, lastID |-> 0,
            repeated |-> FALSE]

\* The caller's variable that no renewAddress has assigned, and what a
\* returned renewAddress leaves in ret.arg when it did not assign its output.
Unassigned == -1

NoLoc == [op |-> "none"]
NoRet == [op |-> "none", arg |-> 0, val |-> 0]


(***************************************************************************)
(* The network layer, as far as the mesh layer uses it.                    *)
(***************************************************************************)
\* A faulty test that takes every object for joined.
JoinedUntested(x) == TRUE

\* An object joined to the tree (it has begun and holds an address).
Joined(x) == meshNetworkAddress[x] # MESH_DEFAULT_ADDRESS

\* Who receives a frame written to address a.  The default address is
\* shared by every object that is acquiring an address; an unjoined object
\* that is not inside renewAddress never pumps the network layer.
Listening(x, a) ==
    /\ netAddress[x] = a
    /\ (a = MESH_DEFAULT_ADDRESS => pc[x] # "idle")

CanReach(ib, a, from) ==
    {x \in Procs \ {from} : Listening(x, a) /\ Len(ib[x]) < MaxInbox}

Put(ib, f, to) == [x \in Procs |-> IF x \in to THEN Append(ib[x], f) ELSE ib[x]]

\* network.write: the receive queues afterwards and the value returned.
\* rel: no frame is lost.  acked: the message type is acknowledged, so a
\* write that reports success was delivered.
WriteOutcomes(rel, acked, ib, f, a, from) ==
    LET reach == CanReach(ib, a, from) IN
    (IF reach # {} THEN {[ib |-> Put(ib, f, reach), ok |-> TRUE]}
                   ELSE {[ib |-> ib, ok |-> FALSE]})
    \cup (IF rel THEN {} ELSE {[ib |-> ib, ok |-> FALSE]})
    \cup (IF rel \/ acked THEN {} ELSE {[ib |-> ib, ok |-> TRUE]})

\* The address of child slot k of the object at address a.
ChildAddress(a, k) ==
    BitOr(a, ShiftLeft(k, getLevel(a) * OCTAL_TO_BIN_BITSHIFT)) % Uint16

RECURSIVE SumBits(_)
SumBits(S) ==
    IF S = {} THEN 0
    ELSE LET k == CHOOSE j \in S : TRUE IN Pow2(k - 1) + SumBits(S \ {k})

\* network.childBitField(): bit k-1 is set when child slot k is occupied.
childBitField(x) ==
    SumBits({k \in 1..5 : \E y \in Procs \ {x} :
                 netAddress[y] = ChildAddress(netAddress[x], k)})

(***************************************************************************)
(* The binding table (master).                                             *)
(***************************************************************************)
NodeAddress(i, a) == [id |-> i, logicalAddress |-> a]

\* The index of the first entry satisfying P, or Len + 1.
RECURSIVE FirstIndex(_, _, _)
FirstIndex(list, P(_), i) ==
    IF i > Len(list) THEN i
    ELSE IF P(list[i]) THEN i
    ELSE FirstIndex(list, P, i + 1)

\* A faulty setAddress that appends without looking for the id.
setAddressAppends(list, nodeID, address) == Append(list, NodeAddress(nodeID, address))

\* Mesh::setAddress
setAddress(list, nodeID, address) ==
    LET hasId(e) == e.id = nodeID
        position == FirstIndex(list, hasId, 1)
    IN IF position = Len(list) + 1
       THEN Append(list, NodeAddress(nodeID, address))
       ELSE [list EXCEPT ![position] = NodeAddress(nodeID, address)]

\* Mesh::releaseDHCPAddress
releaseDHCPAddress(list, address) ==
    [i \in 1..Len(list) |->
        IF list[i].logicalAddress = address
        THEN NodeAddress(list[i].id, MESH_EMPTY_ADDRESS)
        ELSE list[i]]

\* Mesh::confirmDHCPAddress: the uint16_t lastID narrows to setAddress's uint8_t.
confirmDHCPAddress(list, address, lID, lAddress) ==
    IF address = lAddress THEN setAddress(list, ToUint8(lID), lAddress) ELSE list

\* Mesh::getAddress on the master: the value returned (int16_t).
getAddressMaster(list, nodeID) ==
    LET hasId(e) == e.id = nodeID
        i == FirstIndex(list, hasId, 1)
    IN IF i <= Len(list) THEN ToInt16(list[i].logicalAddress) ELSE -1

\* Mesh::getNodeID on the object whose meshNetworkAddress is 0.
getNodeIDMaster(list, me, address) ==
    LET hasAddr(e) == e.logicalAddress = address
        i == FirstIndex(list, hasAddr, 1)
    IN IF address = MESH_BLANK_ID THEN me
       ELSE IF address = 0 THEN 0
       ELSE IF i <= Len(list) THEN list[i].id
       ELSE -1

(***************************************************************************)
(* Construction.  The constructor sets oopsies and meshNetworkAddress      *)
(* only; the repository's programs define their object with static storage *)
(* (mesh_master.cpp, mesh_node.cpp), so the other members start at zero.   *)
(***************************************************************************)
Init ==
    /\ addressList = << >>
    /\ lastID = 0
    /\ lastAddress = 0
    /\ meshNetworkAddress = [x \in Procs |-> MESH_DEFAULT_ADDRESS]
    /\ netAddress = [x \in Procs |-> MESH_DEFAULT_ADDRESS]
    /\ oopsies = [x \in Procs |-> "NO_ERROR"]
    /\ processDHCP = [x \in Procs |-> FALSE]
    /\ DHCPFrame = [x \in Procs |-> ZeroFrame]
    /\ inbox = [x \in Procs |-> << >>]
    /\ pc = [x \in Procs |-> "idle"]
    /\ loc = [x \in Procs |-> NoLoc]
    /\ ret = [x \in Procs |-> NoRet]
    /\ calls = 0
    /\ meshNodeID = [x \in Procs |-> x]
    /\ millis = 0
    /\ bypassHolds = [x \in Procs |-> FALSE]
    /\ listening = [x \in Procs |-> FALSE]
    /\ newAddressOut = [x \in Procs |-> Unassigned]
    /\ lastOffer = NoOffer

(***************************************************************************)
(* Timeouts.  With rel (frames are not lost and arrive in time) a wait     *)
(* loop reaches its deadline only when nothing that could end it is still  *)
(* under way; without rel a deadline may pass at any moment.               *)
(***************************************************************************)
Pumps(x) ==
    \/ pc[x] \in {"waitConfirm", "waitresp", "lookup", "idlookup", "wlookup"}
    \/ (pc[x] = "idle" /\ Joined(x))

Busy ==
    \E x \in Procs :
        \/ inbox[x] # << >> /\ Pumps(x)
        \/ processDHCP[x] /\ pc[x] = "idle"
        \/ pc[x] \in {"poll", "request", "confirm", "retry", "wretry"}

Deadline(rel) == rel => ~Busy

\* What a returned call leaves in ret: the operation, its argument (for
\* renewAddress the address written to newAddress, for releaseAddress the
\* address the object held when it was called) and the value returned.
Ret(o, a, v) == [op |-> o, arg |-> a, val |-> v]


(***************************************************************************)
(* Mesh::begin on the master: network.begin, then address 0.               *)
(***************************************************************************)
Begin(x) ==
    /\ x = MESH_MASTER_NODE_ID
    /\ pc[x] = "idle"
    /\ meshNetworkAddress' = [meshNetworkAddress EXCEPT ![x] = MESH_MASTER_NODE_ID]
    /\ netAddress' = [netAddress EXCEPT ![x] = MESH_MASTER_NODE_ID]
    /\ UNCHANGED calls
    /\ UNCHANGED <<addressList, lastID, lastAddress, oopsies, processDHCP, DHCPFrame,
                   inbox, pc, loc, ret>>
    /\ UNCHANGED meshNodeID
    /\ UNCHANGED millis
    /\ UNCHANGED lastOffer
    /\ UNCHANGED newAddressOut
    /\ UNCHANGED <<bypassHolds, listening>>

(***************************************************************************)
(* Mesh::update                                                            *)
(***************************************************************************)
\* Mesh::lookupDHCPAddress: the reply frame.  The header is built from the
\* destination alone; the byte at the payload's start is the argument.
LookupReply(list, f, me) ==
    LET arg == ToUint8(f.data)
        returnAddr == IF f.msgType = "MESH_ADDR_LOOKUP"
                      THEN getAddressMaster(list, arg)
                      ELSE getNodeIDMaster(list, me, arg)
    IN Frame(HeaderDefaultType, netAddress[me], f.dstNode, 0, ToUint16(returnAddr), 0)

\* The master's dispatch of the frame network.update() returned.
Dispatch(x, f, rest, rel) ==
    IF f.msgType \in {"MESH_ADDR_LOOKUP", "MESH_ID_LOOKUP"}
    THEN /\ \E o \in WriteOutcomes(rel, FALSE, rest, LookupReply(addressList, f, x), f.dstNode, x) :
                inbox' = o.ib
         /\ oopsies' = IF f.msgType = "MESH_ADDR_LOOKUP"
                          /\ getAddressMaster(addressList, ToUint8(f.data)) = -1
                       THEN [oopsies EXCEPT ![x] = "NOT_CONFIGURED"]
                       ELSE oopsies
         /\ UNCHANGED addressList
    ELSE /\ inbox' = rest
         /\ addressList' =
               IF f.msgType = "MESH_ADDR_RELEASE"
               THEN releaseDHCPAddress(addressList, f.srcNode)
               ELSE IF f.msgType = "MESH_ADDR_CONFIRM"
               THEN confirmDHCPAddress(addressList, f.srcNode, lastID, lastAddress)
               ELSE addressList
         /\ UNCHANGED oopsies

\* A faulty latch that is set for address requests alone.
LatchesRequestOnly(type) == type = "MESH_REQ_ADDRESS"

\* Mesh::update, "Do we need to do some DHCP processing?"
Latches(type) == type \in {"MESH_REQ_ADDRESS", "MESH_ADDR_RESPONSE"}

\* A faulty latch that keeps the frame it holds until DHCP has run.
LatchedFirst(pending, held, f) == IF pending THEN held ELSE f

\* update, "DHCPFrame(network.frameBuffer)": the frame the latch holds after
\* update() observed frame f.
Latched(pending, held, f) == f

\* The body of Mesh::update: what one call does to the object and the radios.
update(x, rel) ==
    /\ IF ~Joined(x)
       THEN /\ oopsies' = [oopsies EXCEPT ![x] = "NOT_CONFIGURED"]
            /\ UNCHANGED <<addressList, processDHCP, DHCPFrame, inbox>>
       ELSE IF inbox[x] = << >>
       THEN UNCHANGED <<addressList, oopsies, processDHCP, DHCPFrame, inbox>>
       ELSE LET f == Head(inbox[x])
                rest == [inbox EXCEPT ![x] = Tail(@)]
                latch == Latches(f.msgType)
            IN /\ processDHCP' = IF latch THEN [processDHCP EXCEPT ![x] = TRUE] ELSE processDHCP
               /\ DHCPFrame' = IF latch
                               THEN [DHCPFrame EXCEPT ![x] = Latched(processDHCP[x], @, f)]
                               ELSE DHCPFrame
               /\ IF x = MESH_MASTER_NODE_ID
                  THEN Dispatch(x, f, rest, rel)
                  ELSE inbox' = rest /\ UNCHANGED <<addressList, oopsies>>

\* The application calls update().
Update(x, rel) ==
    /\ pc[x] = "idle"
    /\ update(x, rel)
    /\ UNCHANGED calls
    /\ UNCHANGED <<lastID, lastAddress, meshNetworkAddress, netAddress, pc, loc, ret>>
    /\ UNCHANGED meshNodeID
    /\ UNCHANGED millis
    /\ UNCHANGED lastOffer
    /\ UNCHANGED newAddressOut
    /\ UNCHANGED <<bypassHolds, listening>>

(***************************************************************************)
(* Mesh::DHCP and Mesh::assignDHCPAddress                                  *)
(***************************************************************************)
\* The slot mask assignDHCPAddress uses for the latched request h.
AvailableAddr(x, h) ==
    IF h.dstNode = MESH_MASTER_NODE_ID /\ h.srcNode = MESH_DEFAULT_ADDRESS
    THEN childBitField(x)
    ELSE h.bits

\* A faulty test that takes every forwarder for the parent.
IsParentAlways(x, parentNode) == TRUE

\* DHCP, "Do we also happen to be the parent node?"
IsParent(x, parentNode) == netAddress[x] = parentNode

\* A non-master forwards the latched request to the master.
Forward(x, h, rel) ==
    LET fwd == [h EXCEPT !.bits = IF IsParent(x, h.data) THEN childBitField(x) ELSE @,
                         !.srcNode = netAddress[x],
                         !.dstNode = MESH_MASTER_NODE_ID]
    IN /\ DHCPFrame' = [DHCPFrame EXCEPT ![x] = fwd]
       /\ \E o \in WriteOutcomes(rel, FALSE, inbox, fwd, MESH_MASTER_NODE_ID, x) : inbox' = o.ib
       /\ UNCHANGED <<lastID, lastAddress, pc, loc, lastOffer>>

\* A faulty offer that depends on the pending one: the address offered last
\* is not offered again, the next address is taken instead.
OfferedAddressAfterPending(x, h) ==
    LET a == NewAddress(h.data, AvailableAddr(x, h))
    IN IF lastOffer.id # 0 /\ a = lastAddress THEN (a + 1) % Uint16 ELSE a

\* newAddress of assignDHCPAddress for the latched request h: computed from
\* the request's parent and the slot mask, and from nothing else.
OfferedAddress(x, h) == NewAddress(h.data, AvailableAddr(x, h))

\* The master offers an address and starts waiting for the confirmation.
assignDHCPAddress(x, h, rel) ==
    LET newAddress == OfferedAddress(x, h)
        resp == [h EXCEPT !.msgType = "MESH_ADDR_RESPONSE", !.dstNode = h.srcNode]
    IN /\ DHCPFrame' = [DHCPFrame EXCEPT ![x] = resp]
       /\ \E o \in WriteOutcomes(rel, FALSE, inbox,
                                [resp EXCEPT !.data = newAddress, !.bits = 0],
                                resp.dstNode, x) : inbox' = o.ib
       /\ lastAddress' = newAddress
       /\ lastID' = h.srcNode
       /\ pc' = [pc EXCEPT ![x] = "waitConfirm"]
       /\ loc' = [loc EXCEPT ![x] = [op |-> "assign", nodeID |-> h.reserved,
                                     newAddress |-> newAddress, other |-> "NO_MESSAGE"]]
       /\ lastOffer' = [id |-> h.reserved, parentNode |-> h.data,
                        availableAddr |-> AvailableAddr(x, h),
                        newAddress |-> newAddress, lastID |-> h.srcNode,
                        repeated |-> /\ lastOffer.id = h.reserved
                                     /\ lastOffer.parentNode = h.data
                                     /\ lastOffer.availableAddr = AvailableAddr(x, h)]

\* A faulty test that takes every reserved byte for a requester's id.
RequesterUntested(reserved) == TRUE

\* Mesh::DHCP, the test of the requester's id: header->reserved is not 0.
RequesterGiven(reserved) == reserved # 0

DHCP(x, rel) ==
    /\ pc[x] = "idle"
    /\ IF ~processDHCP[x]
       THEN UNCHANGED <<lastID, lastAddress, processDHCP, DHCPFrame, inbox, pc, loc, lastOffer>>
       ELSE /\ processDHCP' = [processDHCP EXCEPT ![x] = FALSE]
            /\ IF RequesterGiven(DHCPFrame[x].reserved)
                  /\ DHCPFrame[x].msgType = "MESH_REQ_ADDRESS"
               THEN IF x # MESH_MASTER_NODE_ID
                    THEN Forward(x, DHCPFrame[x], rel)
                    ELSE assignDHCPAddress(x, DHCPFrame[x], rel)
               ELSE UNCHANGED <<lastID, lastAddress, DHCPFrame, inbox, pc, loc, lastOffer>>
    /\ UNCHANGED calls
    /\ UNCHANGED <<addressList, meshNetworkAddress, netAddress, oopsies, ret>>
    /\ UNCHANGED meshNodeID
    /\ UNCHANGED millis
    /\ UNCHANGED newAddressOut
    /\ UNCHANGED <<bypassHolds, listening>>

\* A faulty wait loop that applies the releases it takes.
WaitTableReleases(list, f) ==
    IF f.msgType = "MESH_ADDR_RELEASE" THEN releaseDHCPAddress(list, f.srcNode) ELSE list

\* assignDHCPAddress, the table after the wait loop took frame f that is not
\* the confirmation: the loop tests the elapsed time and takes the next one.
WaitTable(list, f) == list

\* The wait loop of assignDHCPAddress: one network.update().  loc.other is
\* the type of the last frame the loop took that was not the confirmation.
AssignWaitRecv(x) ==
    /\ pc[x] = "waitConfirm"
    /\ inbox[x] # << >>
    /\ inbox' = [inbox EXCEPT ![x] = Tail(@)]
    /\ IF Head(inbox[x]).msgType = "MESH_ADDR_CONFIRM"
       THEN /\ addressList' = setAddress(addressList, loc[x].nodeID, loc[x].newAddress)
            /\ pc' = [pc EXCEPT ![x] = "idle"]
            /\ loc' = [loc EXCEPT ![x] = NoLoc]
       ELSE /\ addressList' = WaitTable(addressList, Head(inbox[x]))
            /\ loc' = [loc EXCEPT ![x].other = Head(inbox[x]).msgType]
            /\ UNCHANGED pc
    /\ UNCHANGED calls
    /\ UNCHANGED <<lastID, lastAddress, meshNetworkAddress, netAddress, oopsies,
                   processDHCP, DHCPFrame, ret>>
    /\ UNCHANGED meshNodeID
    /\ UNCHANGED millis
    /\ UNCHANGED lastOffer
    /\ UNCHANGED newAddressOut
    /\ UNCHANGED <<bypassHolds, listening>>

\* The wait loop of assignDHCPAddress: network.routeTimeout has passed.
AssignWaitTimeout(x, rel) ==
    /\ pc[x] = "waitConfirm"
    /\ Deadline(rel)
    /\ oopsies' = [oopsies EXCEPT ![x] = "TIMEOUT"]
    /\ pc' = [pc EXCEPT ![x] = "idle"]
    /\ loc' = [loc EXCEPT ![x] = NoLoc]
    /\ UNCHANGED calls
    /\ UNCHANGED <<addressList, lastID, lastAddress, meshNetworkAddress, netAddress,
                   processDHCP, DHCPFrame, inbox, ret>>
    /\ UNCHANGED meshNodeID
    /\ UNCHANGED millis
    /\ UNCHANGED lastOffer
    /\ UNCHANGED newAddressOut
    /\ UNCHANGED <<bypassHolds, listening>>

(***************************************************************************)
(* Mesh::renewAddress and Mesh::requestAddress (a non-master object).      *)
(***************************************************************************)
RECURSIVE SortedSeq(_)
SortedSeq(S) ==
    IF S = {} THEN << >>
    ELSE LET m == CHOOSE a \in S : \A b \in S : a <= b IN <<m>> \o SortedSeq(S \ {m})

\* The addresses that may answer a poll multicast to a tree level.
Responders(n, level) ==
    {netAddress[y] : y \in {z \in Procs \ {n} :
                                /\ netAddress[z] # MESH_DEFAULT_ADDRESS
                                /\ getLevel(netAddress[z]) = level}}

\* A faulty renewAddress that tests radio.available() after its preparations.
PreparedBeforeTest(flag, pending) == TRUE

\* renewAddress, line 423: BYPASS_HOLDS is set once the call is past the test
\* of radio.available().
Prepared(flag, pending) == IF pending THEN flag ELSE TRUE

\* A faulty return that leaves BYPASS_HOLDS as it is.
RestoredNever(flag) == flag

\* renewAddress, line 475: BYPASS_HOLDS is cleared before the return.
Restored(flag) == FALSE

\* A faulty reset that keeps the address the object holds.
ResetAddressKept(address) == address

\* renewAddress, "Reset the network back to default addressing".
ResetAddress(address) == MESH_DEFAULT_ADDRESS

\* renewAddress up to its loop: radio.available() refuses, or the address
\* is reset and the first attempt starts.
RenewStart(n, budget) ==
    /\ n # MESH_MASTER_NODE_ID
    /\ pc[n] = "idle"
    /\ calls < budget
    /\ calls' = calls + 1
    /\ IF inbox[n] # << >>
       THEN /\ oopsies' = [oopsies EXCEPT ![n] = "PENDING_DATA"]
            /\ ret' = [ret EXCEPT ![n] = Ret("renewAddress", Unassigned, FALSE)]
            /\ UNCHANGED <<meshNetworkAddress, netAddress, pc, loc, listening>>
       ELSE /\ listening' = [listening EXCEPT ![n] = FALSE]
            /\ meshNetworkAddress' = [meshNetworkAddress EXCEPT ![n] = ResetAddress(@)]
            /\ netAddress' = [netAddress EXCEPT ![n] = ResetAddress(@)]
            /\ pc' = [pc EXCEPT ![n] = "poll"]
            /\ loc' = [loc EXCEPT ![n] = [op |-> "renew", reqCounter |-> 0, totalReqs |-> 0,
                                          attempt |-> 0, level |-> 0, delay |-> 0,
                                          pollNodes |-> << >>, i |-> 0,
                                          contactNode |-> EMPTY_LOGICAL_ADDRESS,
                                          newAddress |-> 0]]
            /\ UNCHANGED <<oopsies, ret>>
    /\ bypassHolds' = [bypassHolds EXCEPT ![n] = Prepared(@, inbox[n] # << >>)]
    /\ UNCHANGED <<addressList, lastID, lastAddress, processDHCP, DHCPFrame, inbox>>
    /\ UNCHANGED meshNodeID
    /\ UNCHANGED millis
    /\ UNCHANGED lastOffer
    /\ UNCHANGED newAddressOut

\* requestAddress, the poll: multicast to the level and collect the answers
\* until the poll deadline or MESH_MAXPOLLS answers.  Which neighbours are in
\* radio range is the environment's choice.
Poll(n) ==
    /\ pc[n] = "poll"
    /\ \E S \in SUBSET Responders(n, loc[n].reqCounter) :
          /\ Cardinality(S) <= MESH_MAXPOLLS
          /\ IF S = {}
             THEN /\ oopsies' = [oopsies EXCEPT ![n] = "POLL_FAIL"]
                  /\ pc' = [pc EXCEPT ![n] = "retry"]
                  /\ loc' = [loc EXCEPT ![n].level = loc[n].reqCounter]
             ELSE /\ loc' = [loc EXCEPT ![n].pollNodes = SortedSeq(S), ![n].i = 1,
                                        ![n].contactNode = EMPTY_LOGICAL_ADDRESS,
                                        ![n].level = loc[n].reqCounter]
                  /\ pc' = [pc EXCEPT ![n] = "request"]
                  /\ UNCHANGED oopsies
    /\ inbox' = [inbox EXCEPT ![n] = << >>]
    /\ UNCHANGED calls
    /\ UNCHANGED <<addressList, lastID, lastAddress, meshNetworkAddress, netAddress,
                   processDHCP, DHCPFrame, ret>>
    /\ UNCHANGED meshNodeID
    /\ UNCHANGED millis
    /\ UNCHANGED lastOffer
    /\ UNCHANGED newAddressOut
    /\ UNCHANGED <<bypassHolds, listening>>

\* The same poll, one network.update() at a time.  PollStart is the entry of
\* requestAddress: the buffer is filled with EMPTY_LOGICAL_ADDRESS (held
\* here as the empty sequence of recorded answers) and the poll is multicast.
PollStart(n) ==
    /\ pc[n] = "poll"
    /\ pc' = [pc EXCEPT ![n] = "collect"]
    /\ loc' = [loc EXCEPT ![n].pollNodes = << >>, ![n].i = 0,
                          ![n].contactNode = EMPTY_LOGICAL_ADDRESS,
                          ![n].level = loc[n].reqCounter]
    /\ UNCHANGED <<inbox, oopsies>>
    /\ UNCHANGED calls
    /\ UNCHANGED <<addressList, lastID, lastAddress, meshNetworkAddress, netAddress,
                   processDHCP, DHCPFrame, ret>>
    /\ UNCHANGED meshNodeID
    /\ UNCHANGED millis
    /\ UNCHANGED lastOffer
    /\ UNCHANGED newAddressOut
    /\ UNCHANGED <<bypassHolds, listening>>

\* A faulty test that lets one answer more into the buffer.
PollsFullLate(pollCount) == pollCount > MESH_MAXPOLLS

\* requestAddress, the second half of the test that ends the collecting:
\* pollCount >= MESH_MAXPOLLS.
PollsFull(pollCount) == pollCount >= MESH_MAXPOLLS

\* The end of the collecting: POLL_FAIL when nothing was recorded, else on
\* to the loop over the contacts.  The frames network.update() returned
\* meanwhile are gone.
PollEnd(n, pollNodes) ==
    /\ IF Len(pollNodes) = 0
       THEN /\ oopsies' = [oopsies EXCEPT ![n] = "POLL_FAIL"]
            /\ pc' = [pc EXCEPT ![n] = "retry"]
            /\ loc' = [loc EXCEPT ![n].pollNodes = pollNodes]
       ELSE /\ loc' = [loc EXCEPT ![n].pollNodes = pollNodes, ![n].i = 1]
            /\ pc' = [pc EXCEPT ![n] = "request"]
            /\ UNCHANGED oopsies
    /\ inbox' = [inbox EXCEPT ![n] = << >>]

\* network.update() returns a NETWORK_POLL answer whose source is address a:
\* pollNodes[pollCount] = a, pollCount++, then the test that ends the loop.
PollRecv(n, a) ==
    /\ pc[n] = "collect"
    /\ LET pollNodes == Append(loc[n].pollNodes, a)
       IN IF PollsFull(Len(pollNodes))
          THEN PollEnd(n, pollNodes)
          ELSE /\ loc' = [loc EXCEPT ![n].pollNodes = pollNodes]
               /\ UNCHANGED <<inbox, oopsies, pc>>
    /\ UNCHANGED calls
    /\ UNCHANGED <<addressList, lastID, lastAddress, meshNetworkAddress, netAddress,
                   processDHCP, DHCPFrame, ret>>
    /\ UNCHANGED meshNodeID
    /\ UNCHANGED millis
    /\ UNCHANGED lastOffer
    /\ UNCHANGED newAddressOut
    /\ UNCHANGED <<bypassHolds, listening>>

\* MESH_POLL_TIMEOUT_MS have passed.
PollDeadline(n) ==
    /\ pc[n] = "collect"
    /\ PollEnd(n, loc[n].pollNodes)
    /\ UNCHANGED calls
    /\ UNCHANGED <<addressList, lastID, lastAddress, meshNetworkAddress, netAddress,
                   processDHCP, DHCPFrame, ret>>
    /\ UNCHANGED meshNodeID
    /\ UNCHANGED millis
    /\ UNCHANGED lastOffer
    /\ UNCHANGED newAddressOut
    /\ UNCHANGED <<bypassHolds, listening>>

\* A faulty request that names the object's first id instead of its present one.
RequestIdFirst(n) == n

\* header.data.reserved of the request: getNodeID().
RequestId(n) == meshNodeID[n]

\* requestAddress, the head of the loop over the contacts.
Request(n, rel) ==
    /\ pc[n] = "request"
    /\ IF loc[n].i > Len(loc[n].pollNodes)
       THEN /\ oopsies' = [oopsies EXCEPT ![n] = "NO_RESPONSE"]
            /\ pc' = [pc EXCEPT ![n] = "retry"]
            /\ UNCHANGED <<inbox, loc>>
       ELSE IF ~isValidNetworkAddress(loc[n].pollNodes[loc[n].i])
       THEN /\ loc' = [loc EXCEPT ![n].i = @ + 1]
            /\ UNCHANGED <<inbox, oopsies, pc>>
       ELSE LET pollNode == loc[n].pollNodes[loc[n].i]
                req == Frame("MESH_REQ_ADDRESS", netAddress[n], pollNode, RequestId(n), pollNode, 0)
            IN /\ \E o \in WriteOutcomes(rel, FALSE, inbox, req, pollNode, n) : inbox' = o.ib
               /\ pc' = [pc EXCEPT ![n] = "waitresp"]
               /\ UNCHANGED <<oopsies, loc>>
    /\ UNCHANGED calls
    /\ UNCHANGED <<addressList, lastID, lastAddress, meshNetworkAddress, netAddress,
                   processDHCP, DHCPFrame, ret>>
    /\ UNCHANGED meshNodeID
    /\ UNCHANGED millis
    /\ UNCHANGED lastOffer
    /\ UNCHANGED newAddressOut
    /\ UNCHANGED <<bypassHolds, listening>>

\* A faulty validation that looks at the offered address alone.
OfferInvalidAddressOnly(newAddress, reserved, id) == newAddress = 0

\* A faulty validation that looks at the reserved byte alone.
OfferInvalidIdOnly(newAddress, reserved, id) == reserved # id

\* requestAddress, the validation of the offer: the address is zero, or the
\* reserved byte is not getNodeID().
OfferInvalid(newAddress, reserved, id) == newAddress = 0 \/ reserved # id

\* requestAddress, the wait for the offer: one network.update().  An offer
\* ends the loop over the contacts and is validated.
WaitRespRecv(n) ==
    /\ pc[n] = "waitresp"
    /\ inbox[n] # << >>
    /\ inbox' = [inbox EXCEPT ![n] = Tail(@)]
    /\ LET f == Head(inbox[n])
           contactNode == loc[n].pollNodes[loc[n].i]
       IN IF f.msgType # "MESH_ADDR_RESPONSE"
          THEN UNCHANGED <<oopsies, pc, loc>>
          ELSE IF contactNode = EMPTY_LOGICAL_ADDRESS
          THEN /\ oopsies' = [oopsies EXCEPT ![n] = "NO_RESPONSE"]
               /\ pc' = [pc EXCEPT ![n] = "retry"]
               /\ UNCHANGED loc
          ELSE IF OfferInvalid(f.data, f.reserved, meshNodeID[n])
          THEN /\ oopsies' = [oopsies EXCEPT ![n] = "FAILED_ADDR_REQUEST"]
               /\ pc' = [pc EXCEPT ![n] = "retry"]
               /\ loc' = [loc EXCEPT ![n].contactNode = contactNode]
          ELSE /\ pc' = [pc EXCEPT ![n] = "confirm"]
               /\ loc' = [loc EXCEPT ![n].contactNode = contactNode, ![n].newAddress = f.data]
               /\ UNCHANGED oopsies
    /\ UNCHANGED calls
    /\ UNCHANGED <<addressList, lastID, lastAddress, meshNetworkAddress, netAddress,
                   processDHCP, DHCPFrame, ret>>
    /\ UNCHANGED meshNodeID
    /\ UNCHANGED millis
    /\ UNCHANGED lastOffer
    /\ UNCHANGED newAddressOut
    /\ UNCHANGED <<bypassHolds, listening>>

\* requestAddress, the wait for the offer: 225 ms have passed.
WaitRespTimeout(n, rel) ==
    /\ pc[n] = "waitresp"
    /\ Deadline(rel)
    /\ loc' = [loc EXCEPT ![n].i = @ + 1]
    /\ pc' = [pc EXCEPT ![n] = "request"]
    /\ UNCHANGED calls
    /\ UNCHANGED <<addressList, lastID, lastAddress, meshNetworkAddress, netAddress, oopsies,
                   processDHCP, DHCPFrame, inbox, ret>>
    /\ UNCHANGED meshNodeID
    /\ UNCHANGED millis
    /\ UNCHANGED lastOffer
    /\ UNCHANGED newAddressOut
    /\ UNCHANGED <<bypassHolds, listening>>

\* requestAddress, the confirmation: up to seven writes through the contact
\* (the network layer routes the frame on to its destination, the master);
\* the address is adopted after a write succeeded.  The write is
\* acknowledged by the contact: it fails when nobody holds the contact's
\* address, and its success means delivery when the contact is the master.
ConfirmOutcomes(n, rel) ==
    LET conf == Frame("MESH_ADDR_CONFIRM", meshNodeID[n], MESH_MASTER_NODE_ID, meshNodeID[n], 0, 0)
    IN IF \E y \in Procs \ {n} : netAddress[y] = loc[n].contactNode
       THEN WriteOutcomes(rel, loc[n].contactNode = MESH_MASTER_NODE_ID, inbox, conf,
                          MESH_MASTER_NODE_ID, n)
       ELSE {[ib |-> inbox, ok |-> FALSE]}

\* A faulty success that clears the error indicator.
ErrorCleared(error) == "NO_ERROR"

\* requestAddress and renewAddress, the successful return: oopsies is not
\* assigned on it.
ErrorKept(error) == error

Confirm(n, rel) ==
    /\ pc[n] = "confirm"
    /\ \E o \in ConfirmOutcomes(n, rel) :
            /\ inbox' = o.ib
            /\ IF o.ok
               THEN /\ meshNetworkAddress' = [meshNetworkAddress EXCEPT ![n] = loc[n].newAddress]
                    /\ netAddress' = [netAddress EXCEPT ![n] = loc[n].newAddress]
                    /\ pc' = [pc EXCEPT ![n] = "idle"]
                    /\ loc' = [loc EXCEPT ![n] = NoLoc]
                    /\ ret' = [ret EXCEPT ![n] = Ret("renewAddress", loc[n].newAddress, TRUE)]
                    /\ listening' = [listening EXCEPT ![n] = FALSE]
                    /\ bypassHolds' = [bypassHolds EXCEPT ![n] = Restored(@)]
                    /\ newAddressOut' = [newAddressOut EXCEPT ![n] = loc[n].newAddress]
                    /\ oopsies' = [oopsies EXCEPT ![n] = ErrorKept(@)]
               ELSE /\ oopsies' = [oopsies EXCEPT ![n] = "FAILED_ADDR_CONFIRM"]
                    /\ meshNetworkAddress' = [meshNetworkAddress EXCEPT ![n] = MESH_DEFAULT_ADDRESS]
                    /\ netAddress' = [netAddress EXCEPT ![n] = MESH_DEFAULT_ADDRESS]
                    /\ pc' = [pc EXCEPT ![n] = "retry"]
                    /\ UNCHANGED <<loc, ret, bypassHolds, listening, newAddressOut>>
    /\ UNCHANGED calls
    /\ UNCHANGED <<addressList, lastID, lastAddress, processDHCP, DHCPFrame>>
    /\ UNCHANGED meshNodeID
    /\ UNCHANGED millis
    /\ UNCHANGED lastOffer

\* A faulty backoff that adds the two counters.
BackoffSum(totalReqs, reqCounter) == 50 + ((totalReqs + 1) + (reqCounter + 1)) * 2

\* renewAddress, the argument of delayMilliseconds after a failed attempt.
Backoff(totalReqs, reqCounter) == 50 + ((totalReqs + 1) * (reqCounter + 1)) * 2

\* renewAddress, after a failed attempt: the budget has passed, or back off
\* and try the next level.  loc.attempt counts the failed attempts of the
\* call, loc.delay is the backoff last slept and loc.level the level last
\* polled; the call makes at most "attempts" attempts.
RetryUpTo(n, attempts) ==
    /\ pc[n] = "retry"
    /\ \/ /\ oopsies' = [oopsies EXCEPT ![n] = "TIMEOUT"]
          /\ pc' = [pc EXCEPT ![n] = "idle"]
          /\ loc' = [loc EXCEPT ![n] = NoLoc]
          /\ ret' = [ret EXCEPT ![n] = Ret("renewAddress", MESH_BLANK_ID, FALSE)]
          /\ bypassHolds' = [bypassHolds EXCEPT ![n] = Restored(@)]
          /\ newAddressOut' = [newAddressOut EXCEPT ![n] = MESH_BLANK_ID]
       \/ /\ loc[n].attempt + 1 < attempts
          /\ loc' = [loc EXCEPT ![n].delay = Backoff(loc[n].totalReqs, loc[n].reqCounter),
                                ![n].reqCounter = (@ + 1) % 4,
                                ![n].totalReqs = (@ + 1) % 10,
                                ![n].attempt = @ + 1]
          /\ pc' = [pc EXCEPT ![n] = "poll"]
          /\ UNCHANGED <<oopsies, ret, bypassHolds, newAddressOut>>
    /\ UNCHANGED calls
    /\ UNCHANGED <<addressList, lastID, lastAddress, meshNetworkAddress, netAddress,
                   processDHCP, DHCPFrame, inbox>>
    /\ UNCHANGED meshNodeID
    /\ UNCHANGED millis
    /\ UNCHANGED lastOffer
    /\ UNCHANGED listening

Retry(n) == RetryUpTo(n, MaxAttempts)

(***************************************************************************)
(* Mesh::releaseAddress                                                    *)
(***************************************************************************)
releaseAddress(n, rel, budget) ==
    /\ n # MESH_MASTER_NODE_ID
    /\ pc[n] = "idle"
    /\ calls < budget
    /\ calls' = calls + 1
    /\ IF ~Joined(n)
       THEN /\ oopsies' = [oopsies EXCEPT ![n] = "NOT_CONFIGURED"]
            /\ ret' = [ret EXCEPT ![n] = Ret("releaseAddress", netAddress[n], FALSE)]
            /\ UNCHANGED <<meshNetworkAddress, netAddress, inbox>>
       ELSE \E o \in WriteOutcomes(rel, FALSE, inbox,
                                   Frame("MESH_ADDR_RELEASE", netAddress[n],
                                         MESH_MASTER_NODE_ID, 0, 0, 0),
                                   MESH_MASTER_NODE_ID, n) :
              /\ inbox' = o.ib
              /\ ret' = [ret EXCEPT ![n] = Ret("releaseAddress", netAddress[n], o.ok)]
              /\ meshNetworkAddress' =
                    IF o.ok THEN [meshNetworkAddress EXCEPT ![n] = MESH_DEFAULT_ADDRESS]
                    ELSE meshNetworkAddress
              /\ netAddress' = IF o.ok THEN [netAddress EXCEPT ![n] = MESH_DEFAULT_ADDRESS]
                               ELSE netAddress
              /\ UNCHANGED oopsies
    /\ UNCHANGED <<addressList, lastID, lastAddress, processDHCP, DHCPFrame, pc, loc>>
    /\ UNCHANGED meshNodeID
    /\ UNCHANGED millis
    /\ UNCHANGED lastOffer
    /\ UNCHANGED newAddressOut
    /\ UNCHANGED <<bypassHolds, listening>>

(***************************************************************************)
(* Mesh::checkConnection                                                   *)
(***************************************************************************)
\* uint8_t attempts = 3
CheckAttempts == 3

\* radio.rxFifoFull(): the receive queue of the radio holds all it can.
rxFifoFull(x) == Len(inbox[x]) >= MaxInbox

\* A faulty end that never puts the radio in standby.
StandbyNever(result) == FALSE

\* "We failed, disconnect entirely by going to standby mode": if (!result).
StandbyOnFailure(result) == ~result

\* The end of checkConnection after its loop: standby unless result, and
\* return result.  ret.arg is the number of pings handed to network.write.
CheckEnd(x, result, pings) ==
    /\ listening' = IF StandbyOnFailure(result) THEN [listening EXCEPT ![x] = FALSE]
                    ELSE listening
    /\ ret' = [ret EXCEPT ![x] = Ret("checkConnection", pings, result)]
    /\ pc' = [pc EXCEPT ![x] = "idle"]
    /\ loc' = [loc EXCEPT ![x] = NoLoc]

\* The application calls checkConnection().
checkConnection(x, budget) ==
    /\ pc[x] = "idle"
    /\ calls < budget
    /\ calls' = calls + 1
    /\ pc' = [pc EXCEPT ![x] = "check"]
    /\ loc' = [loc EXCEPT ![x] = [op |-> "check", attempts |-> CheckAttempts,
                                  pings |-> 0, hold |-> FALSE]]
    /\ UNCHANGED <<addressList, lastID, lastAddress, meshNetworkAddress, netAddress, oopsies,
                   processDHCP, DHCPFrame, inbox, ret>>
    /\ UNCHANGED meshNodeID
    /\ UNCHANGED millis
    /\ UNCHANGED lastOffer
    /\ UNCHANGED newAddressOut
    /\ UNCHANGED <<bypassHolds, listening>>

\* The loop test "attempts-- && meshNetworkAddress != MESH_DEFAULT_ADDRESS"
\* and, inside the loop, update().  hold is the HOLD_INCOMING bit of
\* network.networkFlags as network.update() left it.
CheckLoop(x, rel) ==
    /\ pc[x] = "check"
    /\ IF loc[x].attempts # 0 /\ Joined(x)
       THEN /\ update(x, rel)
            /\ \E hold \in BOOLEAN :
                  loc' = [loc EXCEPT ![x].attempts = @ - 1, ![x].hold = hold]
            /\ pc' = [pc EXCEPT ![x] = "checkPing"]
            /\ UNCHANGED <<ret, listening>>
       ELSE /\ CheckEnd(x, FALSE, loc[x].pings)
            /\ UNCHANGED <<addressList, oopsies, processDHCP, DHCPFrame, inbox>>
    /\ UNCHANGED calls
    /\ UNCHANGED <<lastID, lastAddress, meshNetworkAddress, netAddress>>
    /\ UNCHANGED meshNodeID
    /\ UNCHANGED millis
    /\ UNCHANGED lastOffer
    /\ UNCHANGED newAddressOut
    /\ UNCHANGED bypassHolds

\* The values network.write may return for the NETWORK_PING to the master;
\* the network layer of the receiver keeps the ping to itself.
PingOutcomes(x, rel) ==
    {o.ok : o \in WriteOutcomes(rel, FALSE, inbox,
                                Frame("NETWORK_PING", netAddress[x], MESH_MASTER_NODE_ID, 0, 0, 0),
                                MESH_MASTER_NODE_ID, x)}

\* The rest of one pass of the loop: "Have we received any data?", then the
\* ping; a ping that fails is followed by the next pass.
CheckPing(x, rel) ==
    /\ pc[x] = "checkPing"
    /\ IF rxFifoFull(x) \/ loc[x].hold
       THEN /\ ret' = [ret EXCEPT ![x] = Ret("checkConnection", loc[x].pings, TRUE)]
            /\ pc' = [pc EXCEPT ![x] = "idle"]
            /\ loc' = [loc EXCEPT ![x] = NoLoc]
            /\ UNCHANGED listening
       ELSE \E result \in PingOutcomes(x, rel) :
              IF result
              THEN CheckEnd(x, TRUE, loc[x].pings + 1)
              ELSE /\ loc' = [loc EXCEPT ![x].pings = @ + 1]
                   /\ pc' = [pc EXCEPT ![x] = "check"]
                   /\ UNCHANGED <<ret, listening>>
    /\ UNCHANGED calls
    /\ UNCHANGED <<addressList, lastID, lastAddress, meshNetworkAddress, netAddress, oopsies,
                   processDHCP, DHCPFrame, inbox>>
    /\ UNCHANGED meshNodeID
    /\ UNCHANGED millis
    /\ UNCHANGED lastOffer
    /\ UNCHANGED newAddressOut
    /\ UNCHANGED bypassHolds

(***************************************************************************)
(* Mesh::getAddress                                                        *)
(***************************************************************************)
getAddress(x, nodeID, rel, budget) ==
    /\ pc[x] = "idle"
    /\ calls < budget
    /\ calls' = calls + 1
    /\ IF x = MESH_MASTER_NODE_ID
       THEN /\ ret' = [ret EXCEPT ![x] = Ret("getAddress", nodeID,
                                             getAddressMaster(addressList, nodeID))]
            /\ oopsies' = IF getAddressMaster(addressList, nodeID) = -1
                          THEN [oopsies EXCEPT ![x] = "NOT_CONFIGURED"] ELSE oopsies
            /\ UNCHANGED <<inbox, pc, loc>>
       ELSE IF ~Joined(x)
       THEN /\ ret' = [ret EXCEPT ![x] = Ret("getAddress", nodeID, -1)]
            /\ oopsies' = [oopsies EXCEPT ![x] = "NOT_CONFIGURED"]
            /\ UNCHANGED <<inbox, pc, loc>>
       ELSE IF nodeID = MESH_MASTER_NODE_ID
       THEN /\ ret' = [ret EXCEPT ![x] = Ret("getAddress", nodeID, 0)]
            /\ oopsies' = [oopsies EXCEPT ![x] = "INVALID_PARAM"]
            /\ UNCHANGED <<inbox, pc, loc>>
       ELSE \E o \in WriteOutcomes(rel, FALSE, inbox,
                                   Frame("MESH_ADDR_LOOKUP", netAddress[x],
                                         MESH_MASTER_NODE_ID, 0, nodeID, 0),
                                   MESH_MASTER_NODE_ID, x) :
              /\ inbox' = o.ib
              /\ IF o.ok
                 THEN /\ pc' = [pc EXCEPT ![x] = "lookup"]
                      /\ loc' = [loc EXCEPT ![x] = [op |-> "getAddress", arg |-> nodeID]]
                      /\ UNCHANGED <<oopsies, ret>>
                 ELSE /\ ret' = [ret EXCEPT ![x] = Ret("getAddress", nodeID, -1)]
                      /\ oopsies' = [oopsies EXCEPT ![x] = "FAILED_WRITE"]
                      /\ UNCHANGED <<pc, loc>>
    /\ UNCHANGED <<addressList, lastID, lastAddress, meshNetworkAddress, netAddress,
                   processDHCP, DHCPFrame>>
    /\ UNCHANGED meshNodeID
    /\ UNCHANGED millis
    /\ UNCHANGED lastOffer
    /\ UNCHANGED newAddressOut
    /\ UNCHANGED <<bypassHolds, listening>>

\* A faulty conversion that hands a negative answer on as it is.
LookupResultRaw(address) == address

\* What getAddress returns for the answer it read from the frame buffer.
LookupResult(address) == IF address >= 0 THEN address ELSE -2

\* The wait loop of getAddress: one network.update().
LookupRecv(x) ==
    /\ pc[x] = "lookup"
    /\ inbox[x] # << >>
    /\ inbox' = [inbox EXCEPT ![x] = Tail(@)]
    /\ LET f == Head(inbox[x])
       IN IF f.msgType = "MESH_ADDR_LOOKUP"
          THEN /\ ret' = [ret EXCEPT ![x] = Ret("getAddress", loc[x].arg,
                                                LookupResult(ToInt16(f.data)))]
               /\ pc' = [pc EXCEPT ![x] = "idle"]
               /\ loc' = [loc EXCEPT ![x] = NoLoc]
          ELSE UNCHANGED <<ret, pc, loc>>
    /\ UNCHANGED <<addressList, lastID, lastAddress, meshNetworkAddress, netAddress, oopsies,
                   processDHCP, DHCPFrame, calls>>
    /\ UNCHANGED meshNodeID
    /\ UNCHANGED millis
    /\ UNCHANGED lastOffer
    /\ UNCHANGED newAddressOut
    /\ UNCHANGED <<bypassHolds, listening>>

\* The wait loop of getAddress: 150 ms have passed.
LookupTimeout(x, rel) ==
    /\ pc[x] = "lookup"
    /\ Deadline(rel)
    /\ oopsies' = [oopsies EXCEPT ![x] = "FAILED_ADDR_LOOKUP"]
    /\ ret' = [ret EXCEPT ![x] = Ret("getAddress", loc[x].arg, -1)]
    /\ pc' = [pc EXCEPT ![x] = "idle"]
    /\ loc' = [loc EXCEPT ![x] = NoLoc]
    /\ UNCHANGED <<addressList, lastID, lastAddress, meshNetworkAddress, netAddress,
                   processDHCP, DHCPFrame, inbox, calls>>
    /\ UNCHANGED meshNodeID
    /\ UNCHANGED millis
    /\ UNCHANGED lastOffer
    /\ UNCHANGED newAddressOut
    /\ UNCHANGED <<bypassHolds, listening>>

(***************************************************************************)
(* Mesh::getNodeID                                                         *)
(***************************************************************************)
getNodeID(x, address, rel, budget) ==
    /\ pc[x] = "idle"
    /\ calls < budget
    /\ calls' = calls + 1
    /\ IF address = MESH_BLANK_ID \/ address = 0 \/ meshNetworkAddress[x] = 0
       THEN /\ ret' = [ret EXCEPT ![x] = Ret("getNodeID", address,
                                             getNodeIDMaster(addressList, x, address))]
            /\ UNCHANGED <<inbox, pc, loc>>
       ELSE IF ~Joined(x)
       THEN /\ ret' = [ret EXCEPT ![x] = Ret("getNodeID", address, -1)]
            /\ UNCHANGED <<inbox, pc, loc>>
       ELSE \E o \in WriteOutcomes(rel, FALSE, inbox,
                                   Frame("MESH_ID_LOOKUP", netAddress[x],
                                         MESH_MASTER_NODE_ID, 0, address, 0),
                                   MESH_MASTER_NODE_ID, x) :
              /\ inbox' = o.ib
              /\ IF o.ok
                 THEN /\ pc' = [pc EXCEPT ![x] = "idlookup"]
                      /\ loc' = [loc EXCEPT ![x] = [op |-> "getNodeID", arg |-> address]]
                      /\ UNCHANGED ret
                 ELSE /\ ret' = [ret EXCEPT ![x] = Ret("getNodeID", address, -1)]
                      /\ UNCHANGED <<pc, loc>>
    /\ UNCHANGED <<addressList, lastID, lastAddress, meshNetworkAddress, netAddress, oopsies,
                   processDHCP, DHCPFrame>>
    /\ UNCHANGED meshNodeID
    /\ UNCHANGED millis
    /\ UNCHANGED lastOffer
    /\ UNCHANGED newAddressOut
    /\ UNCHANGED <<bypassHolds, listening>>

\* The wait loop of getNodeID: one network.update().
IdLookupRecv(x) ==
    /\ pc[x] = "idlookup"
    /\ inbox[x] # << >>
    /\ inbox' = [inbox EXCEPT ![x] = Tail(@)]
    /\ LET f == Head(inbox[x])
       IN IF f.msgType = "MESH_ID_LOOKUP"
          THEN /\ ret' = [ret EXCEPT ![x] = Ret("getNodeID", loc[x].arg, ToInt16(f.data))]
               /\ pc' = [pc EXCEPT ![x] = "idle"]
               /\ loc' = [loc EXCEPT ![x] = NoLoc]
          ELSE UNCHANGED <<ret, pc, loc>>
    /\ UNCHANGED <<addressList, lastID, lastAddress, meshNetworkAddress, netAddress, oopsies,
                   processDHCP, DHCPFrame, calls>>
    /\ UNCHANGED meshNodeID
    /\ UNCHANGED millis
    /\ UNCHANGED lastOffer
    /\ UNCHANGED newAddressOut
    /\ UNCHANGED <<bypassHolds, listening>>

\* The wait loop of getNodeID: 500 ms have passed.
IdLookupTimeout(x, rel) ==
    /\ pc[x] = "idlookup"
    /\ Deadline(rel)
    /\ oopsies' = [oopsies EXCEPT ![x] = "TIMEOUT"]
    /\ ret' = [ret EXCEPT ![x] = Ret("getNodeID", loc[x].arg, -1)]
    /\ pc' = [pc EXCEPT ![x] = "idle"]
    /\ loc' = [loc EXCEPT ![x] = NoLoc]
    /\ UNCHANGED <<addressList, lastID, lastAddress, meshNetworkAddress, netAddress,
                   processDHCP, DHCPFrame, inbox, calls>>
    /\ UNCHANGED meshNodeID
    /\ UNCHANGED millis
    /\ UNCHANGED lastOffer
    /\ UNCHANGED newAddressOut
    /\ UNCHANGED <<bypassHolds, listening>>

(***************************************************************************)
(* The clock.  radio.millis() is a 32-bit unsigned count of milliseconds;  *)
(* a reading v is kept as the integer congruent to v modulo 2^32 that lies *)
(* nearest to 0, so that 2^32 - 1 is -1 and the wrap of the clock is the   *)
(* step from -1 to 0.                                                      *)
(***************************************************************************)
MESH_LOOKUP_TIMEOUT == 3000

\* a > b between two 32-bit unsigned values.
UGreater(a, b) == IF (a < 0) = (b < 0) THEN a > b ELSE a < 0

\* The instants at which the clock is read, in the order the clock passes
\* them: the start, past one lookup timeout, one lookup timeout and a
\* millisecond before the wrap, the last millisecond before the wrap.
Instants == <<0, MESH_LOOKUP_TIMEOUT + 1, -(MESH_LOOKUP_TIMEOUT + 1), -1>>

\* Time passes to the next instant.  The lookup loop of write reads the clock
\* more often than the instants pass: loc.seen is its latest reading.
Tick ==
    /\ \A x \in Procs : loc[x].op = "write" => loc[x].seen = millis
    /\ \E i \in 1..Len(Instants) :
          /\ millis = Instants[i]
          /\ millis' = Instants[(i % Len(Instants)) + 1]
    /\ UNCHANGED <<addressList, lastID, lastAddress, meshNetworkAddress, netAddress, oopsies,
                   processDHCP, DHCPFrame, inbox, pc, loc, ret, calls, meshNodeID>>
    /\ UNCHANGED <<bypassHolds, listening, newAddressOut, lastOffer>>

(***************************************************************************)
(* Mesh::write and Mesh::writeTo                                           *)
(***************************************************************************)
\* "to" of a call that returned without handing the payload to network.write.
NoWrite == -1

\* What write and writeTo leave in ret: the argument, the value returned and
\* the address the payload was handed to network.write for (or NoWrite).
WriteRet(o, a, v, t) == [op |-> o, arg |-> a, val |-> v, to |-> t]

\* The payload as the network layer carries it to address node.
UserFrame(x, node) == Frame("USER", netAddress[x], node, 0, 0, 0)

\* Mesh::writeTo
writeTo(x, node, rel, budget) ==
    /\ pc[x] = "idle"
    /\ calls < budget
    /\ calls' = calls + 1
    /\ IF ~Joined(x)
       THEN /\ oopsies' = [oopsies EXCEPT ![x] = "NOT_CONFIGURED"]
            /\ ret' = [ret EXCEPT ![x] = WriteRet("writeTo", node, FALSE, NoWrite)]
            /\ UNCHANGED inbox
       ELSE \E o \in WriteOutcomes(rel, FALSE, inbox, UserFrame(x, node), node, x) :
              /\ inbox' = o.ib
              /\ ret' = [ret EXCEPT ![x] = WriteRet("writeTo", node, o.ok, node)]
              /\ UNCHANGED oopsies
    /\ UNCHANGED <<addressList, lastID, lastAddress, meshNetworkAddress, netAddress,
                   processDHCP, DHCPFrame, pc, loc>>
    /\ UNCHANGED meshNodeID
    /\ UNCHANGED millis
    /\ UNCHANGED lastOffer
    /\ UNCHANGED newAddressOut
    /\ UNCHANGED <<bypassHolds, listening>>

\* The end of Mesh::write once toNode is not negative: writeTo(toNode, ...).
WriteFinish(x, nodeID, toNode, rel) ==
    \E o \in WriteOutcomes(rel, FALSE, inbox, UserFrame(x, toNode), toNode, x) :
        /\ inbox' = o.ib
        /\ ret' = [ret EXCEPT ![x] = WriteRet("write", nodeID, o.ok, toNode)]
        /\ pc' = [pc EXCEPT ![x] = "idle"]
        /\ loc' = [loc EXCEPT ![x] = NoLoc]

\* Mesh::write returns false out of its lookup loop.
WriteGiveUp(x, nodeID) ==
    /\ ret' = [ret EXCEPT ![x] = WriteRet("write", nodeID, FALSE, NoWrite)]
    /\ pc' = [pc EXCEPT ![x] = "idle"]
    /\ loc' = [loc EXCEPT ![x] = NoLoc]
    /\ UNCHANGED inbox

\* Mesh::write sends the lookup request of one getAddress call of its loop.
WriteLookupSend(x, nodeID, tries, lookupTimeout, rel) ==
    \E o \in WriteOutcomes(rel, FALSE, inbox,
                           Frame("MESH_ADDR_LOOKUP", netAddress[x], MESH_MASTER_NODE_ID,
                                 0, nodeID, 0),
                           MESH_MASTER_NODE_ID, x) :
        /\ inbox' = o.ib
        /\ loc' = [loc EXCEPT ![x] = [op |-> "write", arg |-> nodeID, tries |-> tries,
                                      lookupTimeout |-> lookupTimeout, seen |-> millis]]
        /\ pc' = [pc EXCEPT ![x] = IF o.ok THEN "wlookup" ELSE "wretry"]
        /\ oopsies' = IF o.ok THEN oopsies ELSE [oopsies EXCEPT ![x] = "FAILED_WRITE"]
        /\ UNCHANGED ret

\* One getAddress call of the loop of Mesh::write on the master: the table
\* is searched; an id that is not found leaves the call in the loop.
WriteLookupMaster(x, nodeID, tries, lookupTimeout, rel) ==
    LET toNode == getAddressMaster(addressList, nodeID)
    IN IF toNode >= 0
       THEN WriteFinish(x, nodeID, toNode, rel) /\ UNCHANGED oopsies
       ELSE IF toNode = -2
       THEN WriteGiveUp(x, nodeID) /\ UNCHANGED oopsies
       ELSE /\ oopsies' = IF toNode = -1
                          THEN [oopsies EXCEPT ![x] = "NOT_CONFIGURED"]
                          ELSE oopsies
            /\ pc' = [pc EXCEPT ![x] = "wretry"]
            /\ loc' = [loc EXCEPT ![x] = [op |-> "write", arg |-> nodeID, tries |-> tries,
                                          lookupTimeout |-> lookupTimeout,
                                          seen |-> millis]]
            /\ UNCHANGED <<inbox, ret>>

\* Mesh::write, up to the first network operation.
write(x, nodeID, rel, budget) ==
    /\ pc[x] = "idle"
    /\ calls < budget
    /\ calls' = calls + 1
    /\ IF ~Joined(x)
       THEN /\ oopsies' = [oopsies EXCEPT ![x] = "NOT_CONFIGURED"]
            /\ WriteGiveUp(x, nodeID)
       ELSE IF nodeID = 0
       THEN WriteFinish(x, nodeID, 0, rel) /\ UNCHANGED oopsies
       ELSE IF x = MESH_MASTER_NODE_ID
       THEN WriteLookupMaster(x, nodeID, 0, millis + MESH_LOOKUP_TIMEOUT, rel)
       ELSE WriteLookupSend(x, nodeID, 0, millis + MESH_LOOKUP_TIMEOUT, rel)
    /\ UNCHANGED <<addressList, lastID, lastAddress, meshNetworkAddress, netAddress,
                   processDHCP, DHCPFrame>>
    /\ UNCHANGED meshNodeID
    /\ UNCHANGED millis
    /\ UNCHANGED lastOffer
    /\ UNCHANGED newAddressOut
    /\ UNCHANGED <<bypassHolds, listening>>

\* The wait loop of the getAddress call inside write: one network.update().
WriteLookupRecv(x, rel) ==
    /\ pc[x] = "wlookup"
    /\ inbox[x] # << >>
    /\ LET f == Head(inbox[x])
           rest == [inbox EXCEPT ![x] = Tail(@)]
           toNode == LookupResult(ToInt16(f.data))
       IN IF f.msgType # "MESH_ADDR_LOOKUP"
          THEN inbox' = rest /\ UNCHANGED <<ret, pc, loc>>
          ELSE IF toNode >= 0
          THEN \E o \in WriteOutcomes(rel, FALSE, rest, UserFrame(x, toNode), toNode, x) :
                  /\ inbox' = o.ib
                  /\ ret' = [ret EXCEPT ![x] = WriteRet("write", loc[x].arg, o.ok, toNode)]
                  /\ pc' = [pc EXCEPT ![x] = "idle"]
                  /\ loc' = [loc EXCEPT ![x] = NoLoc]
          ELSE /\ inbox' = rest
               /\ ret' = [ret EXCEPT ![x] = WriteRet("write", loc[x].arg, FALSE, NoWrite)]
               /\ pc' = [pc EXCEPT ![x] = "idle"]
               /\ loc' = [loc EXCEPT ![x] = NoLoc]
    /\ UNCHANGED <<addressList, lastID, lastAddress, meshNetworkAddress, netAddress, oopsies,
                   processDHCP, DHCPFrame, calls>>
    /\ UNCHANGED meshNodeID
    /\ UNCHANGED millis
    /\ UNCHANGED lastOffer
    /\ UNCHANGED newAddressOut
    /\ UNCHANGED <<bypassHolds, listening>>

\* The wait loop of the getAddress call inside write: 150 ms have passed.
WriteLookupTimeout(x, rel) ==
    /\ pc[x] = "wlookup"
    /\ Deadline(rel)
    /\ oopsies' = [oopsies EXCEPT ![x] = "FAILED_ADDR_LOOKUP"]
    /\ pc' = [pc EXCEPT ![x] = "wretry"]
    /\ UNCHANGED <<addressList, lastID, lastAddress, meshNetworkAddress, netAddress,
                   processDHCP, DHCPFrame, inbox, loc, ret, calls>>
    /\ UNCHANGED meshNodeID
    /\ UNCHANGED millis
    /\ UNCHANGED lastOffer
    /\ UNCHANGED newAddressOut
    /\ UNCHANGED <<bypassHolds, listening>>

\* radio.millis() > lookupTimeout: the clock is unsigned, the int32_t
\* deadline is converted to unsigned for the comparison.
LookupExpired(now, lookupTimeout) == UGreater(now, lookupTimeout)

\* The lookup loop of write after getAddress returned -1: the clock has passed
\* lookupTimeout, or delay and look up again.  The count of the delays, which
\* grows without bound in the code, stops at MaxAttempts.
WriteRetry(x, rel) ==
    /\ pc[x] = "wretry"
    /\ IF LookupExpired(millis, loc[x].lookupTimeout)
       THEN WriteGiveUp(x, loc[x].arg) /\ UNCHANGED oopsies
       ELSE LET tries == IF loc[x].tries < MaxAttempts THEN loc[x].tries + 1 ELSE MaxAttempts
            IN IF x = MESH_MASTER_NODE_ID
               THEN WriteLookupMaster(x, loc[x].arg, tries, loc[x].lookupTimeout, rel)
               ELSE WriteLookupSend(x, loc[x].arg, tries, loc[x].lookupTimeout, rel)
    /\ UNCHANGED <<addressList, lastID, lastAddress, meshNetworkAddress, netAddress,
                   processDHCP, DHCPFrame, calls>>
    /\ UNCHANGED meshNodeID
    /\ UNCHANGED millis
    /\ UNCHANGED lastOffer
    /\ UNCHANGED newAddressOut
    /\ UNCHANGED <<bypassHolds, listening>>

(***************************************************************************)
(* The mesh: frames may be lost and deadlines may pass at any moment.      *)
(***************************************************************************)
Step(rel, budget) ==
    \/ \E x \in Procs : Begin(x)
    \/ \E x \in Procs : Update(x, rel)
    \/ \E x \in Procs : DHCP(x, rel)
    \/ \E x \in Procs : AssignWaitRecv(x)
    \/ \E x \in Procs : AssignWaitTimeout(x, rel)
    \/ \E n \in Procs : RenewStart(n, budget)
    \/ \E n \in Procs : Poll(n)
    \/ \E n \in Procs : Request(n, rel)
    \/ \E n \in Procs : WaitRespRecv(n)
    \/ \E n \in Procs : WaitRespTimeout(n, rel)
    \/ \E n \in Procs : Confirm(n, rel)
    \/ \E n \in Procs : Retry(n)
    \/ \E n \in Procs : releaseAddress(n, rel, budget)

Next == Step(FALSE, MaxCalls)

Spec == Init /\ [][Next]_vars

(***************************************************************************)
(* The mesh when no frame is lost and every frame arrives in time.         *)
(***************************************************************************)
\* The ids and addresses the applications look up.
LookupIds == {MESH_MASTER_NODE_ID} \cup NodeIds
LookupAddresses == {1, 2}

Lookups(rel, budget) ==
    \/ \E x \in Procs : \E id \in LookupIds : getAddress(x, id, rel, budget)
    \/ \E x \in Procs : LookupRecv(x)
    \/ \E x \in Procs : LookupTimeout(x, rel)
    \/ \E x \in Procs : \E a \in LookupAddresses : getNodeID(x, a, rel, budget)
    \/ \E x \in Procs : IdLookupRecv(x)
    \/ \E x \in Procs : IdLookupTimeout(x, rel)

NextReliable == Step(TRUE, MaxCallsReliable)

\* The same mesh where the applications also look up ids and addresses.
NextLookup == Step(TRUE, MaxCalls) \/ Lookups(TRUE, MaxCalls)
SpecLookup == Init /\ [][NextLookup]_vars

\* The same mesh where the applications also look up and write payloads.
WriteTargets == {0, 1}

Writes(rel, budget) ==
    \/ \E x \in Procs : \E id \in LookupIds : write(x, id, rel, budget)
    \/ \E x \in Procs : \E a \in WriteTargets : writeTo(x, a, rel, budget)
    \/ \E x \in Procs : WriteLookupRecv(x, rel)
    \/ \E x \in Procs : WriteLookupTimeout(x, rel)
    \/ \E x \in Procs : WriteRetry(x, rel)

\* Only the lookup loop of write reads the clock: time is seen to pass while
\* an object is in that loop.
TickInLoop == Tick /\ \E x \in Procs : loc[x].op = "write"

NextWrite ==
    \/ Step(TRUE, MaxCalls)
    \/ Lookups(TRUE, MaxCalls)
    \/ Writes(TRUE, MaxCalls)
    \/ TickInLoop
SpecWrite == Init /\ [][NextWrite]_vars

(***************************************************************************)
(* Frames from the part of the mesh that is not one of Procs: the network  *)
(* layer hands the object a frame some other object wrote.                 *)
(***************************************************************************)
EnvFrame(x, f, budget) ==
    /\ Listening(x, netAddress[x])
    /\ Len(inbox[x]) < MaxInbox
    /\ calls < budget
    /\ calls' = calls + 1
    /\ inbox' = [inbox EXCEPT ![x] = Append(@, f)]
    /\ UNCHANGED <<addressList, lastID, lastAddress, meshNetworkAddress, netAddress, oopsies,
                   processDHCP, DHCPFrame, pc, loc, ret>>
    /\ UNCHANGED meshNodeID
    /\ UNCHANGED millis
    /\ UNCHANGED lastOffer
    /\ UNCHANGED newAddressOut
    /\ UNCHANGED <<bypassHolds, listening>>

\* The master alone, serving requests of objects outside Procs: direct
\* requests, requests an intermediate object forwarded with the child mask
\* its network layer reported, and confirmations.
EnvParents == {0, 1}
EnvMasks == {0, 1, 15, 255}
EnvIds == {7}
MasterFrames ==
    {Frame("MESH_REQ_ADDRESS", MESH_DEFAULT_ADDRESS, MESH_MASTER_NODE_ID, id,
           MESH_MASTER_NODE_ID, 0) : id \in EnvIds}
    \cup {Frame("MESH_REQ_ADDRESS", 1, MESH_MASTER_NODE_ID, id, p, m) :
              id \in EnvIds, p \in EnvParents, m \in EnvMasks}
    \cup {Frame("MESH_ADDR_CONFIRM", id, MESH_MASTER_NODE_ID, id, 0, 0) : id \in EnvIds}

NextMaster ==
    \/ Begin(MESH_MASTER_NODE_ID)
    \/ Update(MESH_MASTER_NODE_ID, FALSE)
    \/ DHCP(MESH_MASTER_NODE_ID, FALSE)
    \/ AssignWaitRecv(MESH_MASTER_NODE_ID)
    \/ AssignWaitTimeout(MESH_MASTER_NODE_ID, FALSE)
    \/ \E f \in MasterFrames : EnvFrame(MESH_MASTER_NODE_ID, f, MaxEnvFrames)
SpecMaster == Init /\ [][NextMaster]_vars

\* The administrative call: the application calls setAddress on the master.
SetAddressCall(nodeID, address, budget) ==
    /\ pc[MESH_MASTER_NODE_ID] = "idle"
    /\ calls < budget
    /\ calls' = calls + 1
    /\ addressList' = setAddress(addressList, nodeID, address)
    /\ ret' = [ret EXCEPT ![MESH_MASTER_NODE_ID] = Ret("setAddress", nodeID, address)]
    /\ UNCHANGED <<lastID, lastAddress, meshNetworkAddress, netAddress, oopsies,
                   processDHCP, DHCPFrame, inbox, pc, loc>>
    /\ UNCHANGED meshNodeID
    /\ UNCHANGED millis
    /\ UNCHANGED lastOffer
    /\ UNCHANGED newAddressOut
    /\ UNCHANGED <<bypassHolds, listening>>

\* The master alone, serving outside requests, with administrative calls.
AdminIds == {1, 7, 255}
AdminAddresses == {0, 1, 2}

NextAdmin ==
    \/ NextMaster
    \/ \E id \in AdminIds : \E a \in AdminAddresses : SetAddressCall(id, a, MaxEnvFrames)
SpecAdmin == Init /\ [][NextAdmin]_vars

\* Mesh::setNodeID: the application stores an id between two calls.
setNodeID(x, nodeID, budget) ==
    /\ pc[x] = "idle"
    /\ calls < budget
    /\ calls' = calls + 1
    /\ meshNodeID' = [meshNodeID EXCEPT ![x] = nodeID]
    /\ ret' = [ret EXCEPT ![x] = Ret("setNodeID", nodeID, 0)]
    /\ UNCHANGED <<addressList, lastID, lastAddress, meshNetworkAddress, netAddress, oopsies,
                   processDHCP, DHCPFrame, inbox, pc, loc>>
    /\ UNCHANGED millis
    /\ UNCHANGED lastOffer
    /\ UNCHANGED newAddressOut
    /\ UNCHANGED <<bypassHolds, listening>>

\* The ids the node applications store: their own, or another non-zero one.
SetIds == NodeIds \cup {5}

\* The mesh whose node applications also change their ids between calls.
NextIds ==
    \/ Step(TRUE, MaxCalls)
    \/ \E n \in NodeIds : \E id \in SetIds : setNodeID(n, id, MaxCalls)
SpecIds == Init /\ [][NextIds]_vars

\* The steps an object takes by itself once a call has started: the code
\* of the call runs on.
Internal(x, rel) ==
    \/ AssignWaitTimeout(x, rel)
    \/ Poll(x)
    \/ Request(x, rel)
    \/ WaitRespTimeout(x, rel)
    \/ Confirm(x, rel)
    \/ Retry(x)
    \/ WriteLookupTimeout(x, rel)
    \/ WriteRetry(x, rel)

\* The master and one node under a running clock: frames may be lost, every
\* write may fail.
ClockProcs == {MESH_MASTER_NODE_ID, 1}

NextClock ==
    \/ Tick
    \/ \E x \in ClockProcs : Begin(x)
    \/ \E x \in ClockProcs : Update(x, FALSE)
    \/ \E x \in ClockProcs : DHCP(x, FALSE)
    \/ \E x \in ClockProcs : AssignWaitRecv(x)
    \/ \E x \in ClockProcs : AssignWaitTimeout(x, FALSE)
    \/ \E x \in ClockProcs : RenewStart(x, MaxCalls)
    \/ \E x \in ClockProcs : Poll(x)
    \/ \E x \in ClockProcs : Request(x, FALSE)
    \/ \E x \in ClockProcs : WaitRespRecv(x)
    \/ \E x \in ClockProcs : WaitRespTimeout(x, FALSE)
    \/ \E x \in ClockProcs : Confirm(x, FALSE)
    \/ \E x \in ClockProcs : Retry(x)
    \/ \E x \in ClockProcs : \E id \in ClockProcs : write(x, id, FALSE, MaxCalls)
    \/ \E x \in ClockProcs : WriteLookupRecv(x, FALSE)
    \/ \E x \in ClockProcs : WriteLookupTimeout(x, FALSE)
    \/ \E x \in ClockProcs : WriteRetry(x, FALSE)

\* The clock advances and the code of a started call runs on.
SpecClock ==
    /\ Init
    /\ [][NextClock]_vars
    /\ WF_vars(Tick)
    /\ \A x \in ClockProcs : WF_vars(Internal(x, FALSE))

\* Mesh::setChannel: the radio is tuned and put into receive mode.
setChannel(x) ==
    /\ pc[x] = "idle"
    /\ listening' = [listening EXCEPT ![x] = TRUE]
    /\ UNCHANGED <<addressList, lastID, lastAddress, meshNetworkAddress, netAddress, oopsies,
                   processDHCP, DHCPFrame, inbox, pc, loc, ret, calls, meshNodeID, millis,
                   bypassHolds, newAddressOut, lastOffer>>

\* The master and one node whose applications also call setChannel: frames
\* may be lost, and a late frame waits in the radio of an idle node.
NextRadio ==
    \/ \E x \in ClockProcs : setChannel(x)
    \/ \E x \in ClockProcs : Begin(x)
    \/ \E x \in ClockProcs : Update(x, FALSE)
    \/ \E x \in ClockProcs : DHCP(x, FALSE)
    \/ \E x \in ClockProcs : AssignWaitRecv(x)
    \/ \E x \in ClockProcs : AssignWaitTimeout(x, FALSE)
    \/ \E x \in ClockProcs : RenewStart(x, MaxCallsReliable)
    \/ \E x \in ClockProcs : Poll(x)
    \/ \E x \in ClockProcs : Request(x, FALSE)
    \/ \E x \in ClockProcs : WaitRespRecv(x)
    \/ \E x \in ClockProcs : WaitRespTimeout(x, FALSE)
    \/ \E x \in ClockProcs : Confirm(x, FALSE)
    \/ \E x \in ClockProcs : Retry(x)
    \/ \E x \in ClockProcs : releaseAddress(x, FALSE, MaxCallsReliable)
SpecRadio == Init /\ [][NextRadio]_vars

\* The master and one node whose applications also call checkConnection:
\* frames and pings may be lost.
NextCheck ==
    \/ \E x \in ClockProcs : checkConnection(x, MaxCallsReliable)
    \/ \E x \in ClockProcs : CheckLoop(x, FALSE)
    \/ \E x \in ClockProcs : CheckPing(x, FALSE)
    \/ \E x \in ClockProcs : setChannel(x)
    \/ \E x \in ClockProcs : Begin(x)
    \/ \E x \in ClockProcs : Update(x, FALSE)
    \/ \E x \in ClockProcs : DHCP(x, FALSE)
    \/ \E x \in ClockProcs : AssignWaitRecv(x)
    \/ \E x \in ClockProcs : AssignWaitTimeout(x, FALSE)
    \/ \E x \in ClockProcs : RenewStart(x, MaxCallsReliable)
    \/ \E x \in ClockProcs : Poll(x)
    \/ \E x \in ClockProcs : Request(x, FALSE)
    \/ \E x \in ClockProcs : WaitRespRecv(x)
    \/ \E x \in ClockProcs : WaitRespTimeout(x, FALSE)
    \/ \E x \in ClockProcs : Confirm(x, FALSE)
    \/ \E x \in ClockProcs : Retry(x)
    \/ \E x \in ClockProcs : releaseAddress(x, FALSE, MaxCallsReliable)
SpecCheck == Init /\ [][NextCheck]_vars

\* The mesh where a node that waits for its offer is also handed offers
\* written outside Procs: for its id or another, with an address or with 0.
OfferAddresses == {0, 2}
EnvOffers ==
    {Frame("MESH_ADDR_RESPONSE", MESH_MASTER_NODE_ID, MESH_DEFAULT_ADDRESS, id, a, 0) :
        id \in SetIds, a \in OfferAddresses}

NextOffer ==
    \/ Step(TRUE, MaxCalls)
    \/ \E n \in NodeIds : \E f \in EnvOffers : pc[n] = "waitresp" /\ EnvFrame(n, f, MaxCalls)
SpecOffer == Init /\ [][NextOffer]_vars

\* The same mesh where the applications also look up ids and addresses.
NextOfferLookup == NextOffer \/ Lookups(TRUE, MaxCalls)
SpecOfferLookup == Init /\ [][NextOfferLookup]_vars

\* The master alone, serving also requests that name no requester: the
\* reserved byte is 0, direct or forwarded.
ZeroIdFrames ==
    {Frame("MESH_REQ_ADDRESS", MESH_DEFAULT_ADDRESS, MESH_MASTER_NODE_ID, 0,
           MESH_MASTER_NODE_ID, 0),
     Frame("MESH_REQ_ADDRESS", 1, MESH_MASTER_NODE_ID, 0, 1, 1)}

NextZero ==
    \/ NextMaster
    \/ \E f \in ZeroIdFrames : EnvFrame(MESH_MASTER_NODE_ID, f, MaxEnvFrames)
SpecZero == Init /\ [][NextZero]_vars

\* The master and one node that polls a neighbourhood of objects outside
\* Procs: the answers come one at a time, from the master's address and
\* from an address that is not valid (010 octal), either more than once.
PollSources == {0, 8}

NextPoll ==
    \/ \E x \in ClockProcs : PollStart(x)
    \/ \E x \in ClockProcs : \E a \in PollSources : PollRecv(x, a)
    \/ \E x \in ClockProcs : PollDeadline(x)
    \/ \E x \in ClockProcs : Begin(x)
    \/ \E x \in ClockProcs : Update(x, FALSE)
    \/ \E x \in ClockProcs : DHCP(x, FALSE)
    \/ \E x \in ClockProcs : AssignWaitRecv(x)
    \/ \E x \in ClockProcs : AssignWaitTimeout(x, FALSE)
    \/ \E x \in ClockProcs : RenewStart(x, MaxPollCalls)
    \/ \E x \in ClockProcs : Request(x, FALSE)
    \/ \E x \in ClockProcs : WaitRespRecv(x)
    \/ \E x \in ClockProcs : WaitRespTimeout(x, FALSE)
    \/ \E x \in ClockProcs : Confirm(x, FALSE)
    \/ \E x \in ClockProcs : Retry(x)
SpecPoll == Init /\ [][NextPoll]_vars

(***************************************************************************)
(* One renewAddress call of many attempts: the poll is answered from       *)
(* PollSources or not at all, and no offer arrives.                        *)
(***************************************************************************)
NextBackoff ==
    \/ \E x \in ClockProcs : RenewStart(x, MaxPollCalls)
    \/ \E x \in ClockProcs : PollStart(x)
    \/ \E x \in ClockProcs : \E a \in PollSources : PollRecv(x, a)
    \/ \E x \in ClockProcs : PollDeadline(x)
    \/ \E x \in ClockProcs : Request(x, FALSE)
    \/ \E x \in ClockProcs : WaitRespTimeout(x, FALSE)
    \/ \E x \in ClockProcs : RetryUpTo(x, MaxBackoffAttempts)
SpecBackoff == Init /\ [][NextBackoff]_vars

\* The master and one node whose renewAddress makes enough attempts to poll
\* the master's level a second time; frames may be lost.
NextLevels ==
    \/ \E x \in ClockProcs : Begin(x)
    \/ \E x \in ClockProcs : Update(x, FALSE)
    \/ \E x \in ClockProcs : DHCP(x, FALSE)
    \/ \E x \in ClockProcs : AssignWaitRecv(x)
    \/ \E x \in ClockProcs : AssignWaitTimeout(x, FALSE)
    \/ \E x \in ClockProcs : RenewStart(x, MaxCalls)
    \/ \E x \in ClockProcs : Poll(x)
    \/ \E x \in ClockProcs : Request(x, FALSE)
    \/ \E x \in ClockProcs : WaitRespRecv(x)
    \/ \E x \in ClockProcs : WaitRespTimeout(x, FALSE)
    \/ \E x \in ClockProcs : Confirm(x, FALSE)
    \/ \E x \in ClockProcs : RetryUpTo(x, MaxLevelAttempts)
    \/ \E x \in ClockProcs : releaseAddress(x, FALSE, MaxCalls)
SpecLevels == Init /\ [][NextLevels]_vars

\* The master and one node that, once joined, is the contact of requesters
\* outside Procs: their requests name as parent the first or the second
\* child of the master, with an empty or a non-empty byte at offset 3.
ForwardParents == {1, 2}
ForwardMasks == {0, 3}
ForwardFrames(n) ==
    {Frame("MESH_REQ_ADDRESS", MESH_DEFAULT_ADDRESS, netAddress[n], id, p, m) :
         id \in EnvIds, p \in ForwardParents, m \in ForwardMasks}

NextForward ==
    \/ \E x \in ClockProcs : Begin(x)
    \/ \E x \in ClockProcs : Update(x, FALSE)
    \/ \E x \in ClockProcs : DHCP(x, FALSE)
    \/ \E x \in ClockProcs : AssignWaitRecv(x)
    \/ \E x \in ClockProcs : AssignWaitTimeout(x, FALSE)
    \/ \E x \in ClockProcs : RenewStart(x, MaxCalls)
    \/ \E x \in ClockProcs : Poll(x)
    \/ \E x \in ClockProcs : Request(x, FALSE)
    \/ \E x \in ClockProcs : WaitRespRecv(x)
    \/ \E x \in ClockProcs : WaitRespTimeout(x, FALSE)
    \/ \E x \in ClockProcs : Confirm(x, FALSE)
    \/ \E x \in ClockProcs : Retry(x)
    \/ \E n \in ClockProcs \ {MESH_MASTER_NODE_ID} : \E f \in ForwardFrames(n) :
          Joined(n) /\ EnvFrame(n, f, MaxCalls)
SpecForward == Init /\ [][NextForward]_vars

\* The master alone, serving also reverse lookups of objects outside Procs:
\* for addresses of one, two and three octal digits (011 is 9, 0411 is 265).
WideAddresses == {1, 9, 265}
IdLookupFrames ==
    {Frame("MESH_ID_LOOKUP", 1, MESH_MASTER_NODE_ID, 0, a, 0) : a \in WideAddresses}

NextWide ==
    \/ NextMaster
    \/ \E f \in IdLookupFrames : EnvFrame(MESH_MASTER_NODE_ID, f, MaxEnvFrames)
SpecWide == Init /\ [][NextWide]_vars

\* The master alone, also handed the lookups and the release of the node at
\* address 1.
WaitFrames ==
    {Frame("MESH_ADDR_LOOKUP", 1, MESH_MASTER_NODE_ID, 0, id, 0) : id \in EnvIds}
    \cup {Frame("MESH_ID_LOOKUP", 1, MESH_MASTER_NODE_ID, 0, 1, 0),
          Frame("MESH_ADDR_RELEASE", 1, MESH_MASTER_NODE_ID, 0, 0, 0)}

NextWait ==
    \/ NextMaster
    \/ \E f \in WaitFrames : EnvFrame(MESH_MASTER_NODE_ID, f, MaxEnvFrames)
SpecWait == Init /\ [][NextWait]_vars

\* The mesh where a looking-up object is answered by frames of the lookup
\* type from outside Procs (an answer as getAddress expects it).
AnswerValues == {1, 9, 300, 32768, 65535}
Answers(n) ==
    {Frame("MESH_ADDR_LOOKUP", MESH_MASTER_NODE_ID, netAddress[n], 0, v, 0) : v \in AnswerValues}

NextNode ==
    \/ NextLookup
    \/ \E n \in NodeIds : \E f \in Answers(n) : pc[n] = "lookup" /\ EnvFrame(n, f, MaxCalls + 1)
SpecNode == Init /\ [][NextNode]_vars

SpecReliable == Init /\ [][NextReliable]_vars

(***************************************************************************)
(* Properties.                                                             *)
(***************************************************************************)
\* An address as the addressing rules want it: some non-zero octal digit, no
\* digit above MESH_MAX_CHILDREN, at most five digits.
WellFormed(a) ==
    /\ a # 0
    /\ a < 32768
    /\ \A k \in 1..Len(OctalDigits(a)) : OctalDigits(a)[k] <= MESH_MAX_CHILDREN

\* The lowest child slot of the master that no object occupies (0: none).
LowestFreeSlot ==
    LET free == {k \in 1..CHAR_BIT : \A y \in Procs : netAddress[y] # k}
    IN IF free = {} THEN 0 ELSE CHOOSE k \in free : \A j \in free : k <= j

\* A request as an unjoined object writes it to the master it polled.
DirectRequest(h) ==
    /\ h.msgType = "MESH_REQ_ADDRESS"
    /\ h.reserved # 0
    /\ h.srcNode = MESH_DEFAULT_ADDRESS
    /\ h.dstNode = MESH_MASTER_NODE_ID
    /\ h.data = MESH_MASTER_NODE_ID

\* A confirmation is the next frame the master will take.
ConfirmNext ==
    /\ inbox[MESH_MASTER_NODE_ID] # << >>
    /\ Head(inbox[MESH_MASTER_NODE_ID]).msgType = "MESH_ADDR_CONFIRM"

\* The master takes a confirmation from its receive queue in this step.
TakesConfirm ==
    /\ ConfirmNext
    /\ inbox'[MESH_MASTER_NODE_ID] = Tail(inbox[MESH_MASTER_NODE_ID])

\* C1: a binding (id, addr) enters the table, or replaces an entry, only in
\* a step where the master takes an ADDR_CONFIRM that the node with that id
\* sent while the pending offer is for that address.
C1_TwoPhaseCommit ==
    [][\A i \in 1..Len(addressList') :
          (/\ addressList'[i].logicalAddress # MESH_EMPTY_ADDRESS
           /\ (i > Len(addressList) \/ addressList'[i] # addressList[i]))
          => /\ TakesConfirm
             /\ Head(inbox[MESH_MASTER_NODE_ID]).srcNode = addressList'[i].id
             /\ addressList'[i].logicalAddress = lastAddress]_vars

\* C2: the table never holds two entries with distinct ids and the same
\* non-zero address.
C2_Uniqueness ==
    \A i, j \in 1..Len(addressList) :
        (/\ addressList[i].id # addressList[j].id
         /\ addressList[i].logicalAddress # MESH_EMPTY_ADDRESS)
        => addressList[i].logicalAddress # addressList[j].logicalAddress

\* C3: every address the master offers, and every address it holds in the
\* table for a non-master id, is well formed.
C3_WellFormed ==
    /\ pc[MESH_MASTER_NODE_ID] = "waitConfirm" => WellFormed(loc[MESH_MASTER_NODE_ID].newAddress)
    /\ \A i \in 1..Len(addressList) :
          (/\ addressList[i].id # MESH_MASTER_NODE_ID
           /\ addressList[i].logicalAddress # MESH_EMPTY_ADDRESS)
          => WellFormed(addressList[i].logicalAddress)

\* C4: when a joined node's getAddress(id) or getNodeID(addr) returns, with
\* no frame lost, the value is the one the master's table binds to the
\* argument.
C4_LookupRoundTrip ==
    [][\A n \in NodeIds :
          (pc[n] \in {"lookup", "idlookup"} /\ pc'[n] = "idle")
          => \A i \in 1..Len(addressList) :
                /\ (/\ ret'[n].op = "getAddress"
                    /\ addressList[i].id = ret'[n].arg
                    /\ addressList[i].logicalAddress # MESH_EMPTY_ADDRESS)
                   => ret'[n].val = addressList[i].logicalAddress
                /\ (/\ ret'[n].op = "getNodeID"
                    /\ addressList[i].logicalAddress = ret'[n].arg)
                   => ret'[n].val = addressList[i].id]_vars

\* C5: once an offer has timed out (the master is outside the wait loop and
\* the offered address is bound to nobody), a confirmation the master takes
\* leaves the table unchanged.
C5_ConfirmAfterTimeout ==
    [][(/\ pc[MESH_MASTER_NODE_ID] = "idle"
        /\ oopsies[MESH_MASTER_NODE_ID] = "TIMEOUT"
        /\ TakesConfirm
        /\ \A i \in 1..Len(addressList) : addressList[i].logicalAddress # lastAddress)
       => addressList' = addressList]_vars

\* A node's renewAddress returns success in this step, having asked the
\* contact at address a.
Adopts(n, a) ==
    /\ pc[n] = "confirm"
    /\ pc'[n] = "idle"
    /\ loc[n].contactNode = a

\* The master starts waiting for the confirmation of an offer in this step.
Offers ==
    /\ pc[MESH_MASTER_NODE_ID] = "idle"
    /\ pc'[MESH_MASTER_NODE_ID] = "waitConfirm"

\* No confirmation of node n is still on its way to the master.
Settled(n) ==
    \A k \in 1..Len(inbox[MESH_MASTER_NODE_ID]) :
        ~(/\ inbox[MESH_MASTER_NODE_ID][k].msgType = "MESH_ADDR_CONFIRM"
          /\ inbox[MESH_MASTER_NODE_ID][k].srcNode = n)

C7_JoinThroughContact ==
    \A n \in NodeIds :
        ~(/\ pc[n] = "retry"
          /\ oopsies[n] = "NO_RESPONSE"
          /\ loc[n].pollNodes = <<1>>
          /\ DHCPFrame[MESH_MASTER_NODE_ID].msgType = "MESH_ADDR_RESPONSE"
          /\ DHCPFrame[MESH_MASTER_NODE_ID].reserved = n
          /\ lastAddress = 9
          /\ \E y \in NodeIds \ {n} :
                /\ netAddress[y] = 1
                /\ pc[y] = "idle"
                /\ childBitField(y) = 0)

\* The master processes an ADDR_RELEASE in this step.
TakesRelease ==
    /\ pc[MESH_MASTER_NODE_ID] = "idle"
    /\ Joined(MESH_MASTER_NODE_ID)
    /\ inbox[MESH_MASTER_NODE_ID] # << >>
    /\ Head(inbox[MESH_MASTER_NODE_ID]).msgType = "MESH_ADDR_RELEASE"
    /\ inbox'[MESH_MASTER_NODE_ID] = Tail(inbox[MESH_MASTER_NODE_ID])

\* Node n released address a with its last call and the master has cleared
\* n's entry.
Released(n, a) ==
    /\ ret[n] = Ret("releaseAddress", a, TRUE)
    /\ \E i \in 1..Len(addressList) : addressList[i] = NodeAddress(n, MESH_EMPTY_ADDRESS)

\* The master takes, in this step, the confirmation node n sent for the
\* address it now holds, while the table has n's cleared entry at position
\* i; no other node has called anything, so the entry is the one n's own
\* release left behind.
ConfirmsRejoin(n, i) ==
    /\ i \in 1..Len(addressList)
    /\ addressList[i] = NodeAddress(n, MESH_EMPTY_ADDRESS)
    /\ \A m \in NodeIds \ {n} : pc[m] = "idle" /\ ret[m] = NoRet
    /\ pc[n] = "idle"
    /\ Joined(n)
    /\ TakesConfirm
    /\ Head(inbox[MESH_MASTER_NODE_ID]).srcNode = n
    /\ Head(inbox[MESH_MASTER_NODE_ID]).reserved = n

\* C8: processing an ADDR_RELEASE keeps every entry and its id and clears
\* the released address; when the node has rejoined and the master takes
\* its confirmation, the binding is written into the node's cleared entry
\* (same position, table length unchanged); and the node that rejoins
\* through the master after its release holds the address it released.
C8_ReleaseAndRejoin ==
    /\ [][TakesRelease
          => /\ Len(addressList') = Len(addressList)
             /\ \A i \in 1..Len(addressList) :
                   /\ addressList'[i].id = addressList[i].id
                   /\ addressList'[i].logicalAddress =
                         IF addressList[i].logicalAddress =
                               Head(inbox[MESH_MASTER_NODE_ID]).srcNode
                         THEN MESH_EMPTY_ADDRESS
                         ELSE addressList[i].logicalAddress]_vars
    /\ [][\A n \in NodeIds : \A i \in 1..Len(addressList) :
             ConfirmsRejoin(n, i)
             => /\ Len(addressList') = Len(addressList)
                /\ addressList'[i] = NodeAddress(n, meshNetworkAddress[n])]_vars
    /\ [][\A n \in NodeIds :
             (Adopts(n, MESH_MASTER_NODE_ID) /\ Released(n, ret[n].arg))
             => meshNetworkAddress'[n] = ret[n].arg]_vars

\* getAddress returns to a joined node n in this step (not the shortcut for
\* the master's id).
GetAddressReturns(n) ==
    /\ Joined(n)
    /\ ret'[n].op = "getAddress"
    /\ ret'[n].arg # MESH_MASTER_NODE_ID
    /\ (pc[n] = "lookup" /\ pc'[n] = "idle") \/ (pc[n] = "idle" /\ ret'[n] # ret[n])

\* The answer getAddress reads in this step.
AnswerRead(n) ==
    /\ pc[n] = "lookup"
    /\ inbox[n] # << >>
    /\ Head(inbox[n]).msgType = "MESH_ADDR_LOOKUP"
    /\ inbox'[n] = Tail(inbox[n])

C10_MasterIdIsZero ==
    \A x \in Procs :
        (Joined(x) /\ ret[x].op = "getAddress" /\ ret[x].arg = MESH_MASTER_NODE_ID)
        => ret[x].val = 0

\* The master's table holds a released entry for id: its only entry for id
\* has the address cleared.
ReleasedEntry(id) ==
    /\ \E i \in 1..Len(addressList) : addressList[i] = NodeAddress(id, MESH_EMPTY_ADDRESS)
    /\ \A i \in 1..Len(addressList) :
          addressList[i].id = id => addressList[i].logicalAddress = MESH_EMPTY_ADDRESS

\* C11: while the table's entry for an id is released, getAddress(id) on the
\* master returns -1, and write to that id on the master returns false
\* without handing the payload to the network layer.
C11_ReleasedNotFound ==
    [][\A id \in NodeIds :
          ReleasedEntry(id)
          => /\ getAddress(MESH_MASTER_NODE_ID, id, TRUE, MaxCalls)
                => ret'[MESH_MASTER_NODE_ID].val = -1
             /\ write(MESH_MASTER_NODE_ID, id, TRUE, MaxCalls)
                => /\ ret'[MESH_MASTER_NODE_ID].val = FALSE
                   /\ ret'[MESH_MASTER_NODE_ID].to = NoWrite]_vars

\* The ids of a table, in order.
IdsOf(list) == [i \in 1..Len(list) |-> list[i].id]

\* C12: no two entries of the table have the same id; a step that changes
\* the table keeps every entry's id and position and the table length, or
\* appends one entry whose id was not in the table.
C12_UniqueIds ==
    /\ [](\A i, j \in 1..Len(addressList) :
             addressList[i].id = addressList[j].id => i = j)
    /\ [][addressList' # addressList
          => \/ IdsOf(addressList') = IdsOf(addressList)
             \/ /\ Len(addressList') = Len(addressList) + 1
                /\ SubSeq(addressList', 1, Len(addressList)) = addressList
                /\ \A i \in 1..Len(addressList) :
                      addressList[i].id # addressList'[Len(addressList')].id]_vars
    /\ [][\A id \in AdminIds : \A a \in AdminAddresses :
             SetAddressCall(id, a, MaxEnvFrames)
             => \E i \in 1..Len(addressList') :
                   /\ addressList'[i] = NodeAddress(id, a)
                   /\ \A j \in 1..Len(addressList) :
                         j # i => addressList'[j] = addressList[j]]_vars

\* C12 witness: the last administrative call set id 7, whose entry stands
\* before the entry an earlier administrative call appended for id 1: the
\* entry of id 7 was replaced in place.
C12_Witness ==
    /\ ret[MESH_MASTER_NODE_ID] = Ret("setAddress", 7, 2)
    /\ addressList = <<NodeAddress(7, 2), NodeAddress(1, 1)>>

\* C13: an offer leaves the pending pair (requester's id from the request's
\* reserved byte, offered address), and an entry a confirmation writes has
\* the id of the requester the last offer was made to.
C13_PendingPair ==
    /\ [][Offers
          => /\ lastID' = DHCPFrame[MESH_MASTER_NODE_ID].reserved
             /\ lastAddress' = loc'[MESH_MASTER_NODE_ID].newAddress]_vars
    /\ [][TakesConfirm
          => \A i \in 1..Len(addressList') :
                (i > Len(addressList) \/ addressList'[i] # addressList[i])
                => addressList'[i].id = DHCPFrame[MESH_MASTER_NODE_ID].reserved]_vars

(***************************************************************************)
(* C14: renewAddress never changes the node's id.                          *)
(***************************************************************************)
\* The frame a step appended to the inbox of y.
Appended(y) == inbox'[y][Len(inbox'[y])]
Grew(y) == Len(inbox'[y]) = Len(inbox[y]) + 1

\* C14: while a node is inside renewAddress, and over the call's start and
\* every one of its returns (success, PENDING_DATA, TIMEOUT), its id is
\* unchanged; the MESH_REQ_ADDRESS and MESH_ADDR_CONFIRM frames it sends
\* carry that id, and the offer it accepts names that id.
C14_IdKept ==
    [][\A n \in NodeIds :
          /\ (pc[n] # "idle" \/ pc'[n] # "idle") => meshNodeID'[n] = meshNodeID[n]
          /\ (ret'[n] # ret[n] /\ ret'[n].op = "renewAddress")
                => meshNodeID'[n] = meshNodeID[n]
          /\ (pc[n] = "request" /\ pc'[n] = "waitresp")
                => \A y \in Procs : Grew(y) =>
                        /\ Appended(y).msgType = "MESH_REQ_ADDRESS"
                        /\ Appended(y).reserved = meshNodeID'[n]
          /\ (pc[n] = "waitresp" /\ pc'[n] = "confirm")
                => Head(inbox[n]).reserved = meshNodeID'[n]
          /\ (pc[n] = "confirm" /\ pc'[n] # "confirm")
                => \A y \in Procs : Grew(y) =>
                        /\ Appended(y).msgType = "MESH_ADDR_CONFIRM"
                        /\ Appended(y).reserved = meshNodeID'[n]
      ]_vars

\* C14 witness: a node that stored another id has joined under it.
C14_Witness ==
    \E n \in NodeIds :
        /\ meshNodeID[n] # n
        /\ ret[n].op = "renewAddress" /\ ret[n].val = TRUE
        /\ Joined(n)
        /\ \E i \in 1..Len(addressList) : addressList[i].id = meshNodeID[n]

(***************************************************************************)
(* C15: every call returns.                                                *)
(***************************************************************************)
\* C15: provided the clock advances, a call that has started eventually
\* returns, even when writes fail and no frame arrives: every wait loop
\* ends at its deadline and no retry loop runs forever.
C15_EveryCallReturns ==
    \A x \in ClockProcs : (pc[x] # "idle") ~> (pc[x] = "idle")

(***************************************************************************)
(* C16: renewAddress with pending radio data.                              *)
(***************************************************************************)
\* The step is a call of renewAddress by n that found radio data pending.
RenewRefused(n) == inbox[n] # << >> /\ RenewStart(n, MaxCallsReliable)

\* C16: renewAddress called while the radio holds received data returns
\* failure with PENDING_DATA and changes nothing else: meshNetworkAddress,
\* the network address, BYPASS_HOLDS and the radio mode are as before, the
\* call is over, and no frame is sent or consumed.
C16_PendingData ==
    [][\A n \in NodeIds : RenewRefused(n) =>
          /\ ret'[n].val = FALSE
          /\ oopsies'[n] = "PENDING_DATA"
          /\ pc'[n] = "idle"
          /\ meshNetworkAddress'[n] = meshNetworkAddress[n]
          /\ netAddress'[n] = netAddress[n]
          /\ bypassHolds'[n] = bypassHolds[n]
          /\ listening'[n] = listening[n]
          /\ inbox' = inbox
          /\ UNCHANGED <<addressList, lastID, lastAddress, processDHCP, DHCPFrame, loc,
                         meshNodeID>>
      ]_vars

\* C16 witness: a joined node in receive mode was refused with PENDING_DATA
\* and is still joined and still receiving.
C16_Witness ==
    \E n \in NodeIds :
        /\ ret[n] = Ret("renewAddress", Unassigned, FALSE)
        /\ oopsies[n] = "PENDING_DATA"
        /\ Joined(n) /\ netAddress[n] = meshNetworkAddress[n]
        /\ listening[n] /\ ~bypassHolds[n]
        /\ inbox[n] # << >>

(***************************************************************************)
(* C17: after a renewAddress that ran out of its budget.                   *)
(***************************************************************************)
\* The step is a call of write, writeTo or releaseAddress by n.
SendingCall(n) ==
    \/ \E id \in LookupIds : write(n, id, TRUE, MaxCalls)
    \/ \E node \in WriteTargets : writeTo(n, node, TRUE, MaxCalls)
    \/ releaseAddress(n, TRUE, MaxCalls)

\* C17: a renewAddress that fails on its budget leaves the node unjoined
\* (meshNetworkAddress and the network address at MESH_DEFAULT_ADDRESS, the
\* output at MESH_BLANK_ID, the error TIMEOUT); as long as the output shows
\* that failure the node stays unjoined, and each of its write, writeTo and
\* releaseAddress calls returns false with NOT_CONFIGURED and sends nothing.
C17_UnjoinedAfterTimeout ==
    /\ [](\A n \in NodeIds : newAddressOut[n] = MESH_BLANK_ID =>
              /\ meshNetworkAddress[n] = MESH_DEFAULT_ADDRESS
              /\ netAddress[n] = MESH_DEFAULT_ADDRESS)
    /\ [][\A n \in NodeIds :
            /\ (pc[n] = "retry" /\ pc'[n] = "idle") =>
                  /\ meshNetworkAddress'[n] = MESH_DEFAULT_ADDRESS
                  /\ netAddress'[n] = MESH_DEFAULT_ADDRESS
                  /\ newAddressOut'[n] = MESH_BLANK_ID
                  /\ oopsies'[n] = "TIMEOUT"
                  /\ ret'[n] = Ret("renewAddress", MESH_BLANK_ID, FALSE)
            /\ (newAddressOut[n] = MESH_BLANK_ID /\ SendingCall(n)) =>
                  /\ ret'[n].val = FALSE
                  /\ oopsies'[n] = "NOT_CONFIGURED"
                  /\ pc'[n] = "idle"
                  /\ inbox' = inbox
                  /\ meshNetworkAddress'[n] = MESH_DEFAULT_ADDRESS
            /\ (newAddressOut[n] = MESH_BLANK_ID /\ newAddressOut'[n] # MESH_BLANK_ID) =>
                  /\ ret'[n] = Ret("renewAddress", newAddressOut'[n], TRUE)
                  /\ meshNetworkAddress'[n] = newAddressOut'[n]
       ]_vars

\* C17 witness: a node whose renewAddress ran out of its budget was refused a
\* write.
C17_Witness ==
    \E n \in NodeIds :
        /\ newAddressOut[n] = MESH_BLANK_ID
        /\ ret[n] = WriteRet("write", 9, FALSE, NoWrite)
        /\ oopsies[n] = "NOT_CONFIGURED"
        /\ pc[n] = "idle"

(***************************************************************************)
(* C18: every write of the confirmation fails.                             *)
(***************************************************************************)
\* C18: when the confirmation writes of an attempt all fail, the node's
\* addresses are back at MESH_DEFAULT_ADDRESS with FAILED_ADDR_CONFIRM, and
\* the renewAddress call that returns after that attempt returns false with
\* the error FAILED_ADDR_CONFIRM.
C18_ConfirmFailureSurfaces ==
    [][\A n \in NodeIds :
          /\ (pc[n] = "confirm" /\ pc'[n] = "retry") =>
                /\ meshNetworkAddress'[n] = MESH_DEFAULT_ADDRESS
                /\ netAddress'[n] = MESH_DEFAULT_ADDRESS
                /\ oopsies'[n] = "FAILED_ADDR_CONFIRM"
          /\ (pc[n] = "retry" /\ oopsies[n] = "FAILED_ADDR_CONFIRM" /\ pc'[n] = "idle") =>
                /\ ret'[n] = Ret("renewAddress", MESH_BLANK_ID, FALSE)
                /\ oopsies'[n] = "FAILED_ADDR_CONFIRM"
      ]_vars

(***************************************************************************)
(* C19: the validation of the offer.                                       *)
(***************************************************************************)
\* The step is n's reading of an offer while it waits for one.
ReadsOffer(n) ==
    /\ pc[n] = "waitresp" /\ inbox[n] # << >>
    /\ Head(inbox[n]).msgType = "MESH_ADDR_RESPONSE"
    /\ WaitRespRecv(n)

\* A step appended a MESH_ADDR_CONFIRM frame to some inbox.
ConfirmSent ==
    \E y \in Procs : Grew(y) /\ Appended(y).msgType = "MESH_ADDR_CONFIRM"

\* C19: a node takes an offer to the confirmation only if the offered
\* address is not 0 and the reserved byte is its own id; any other offer
\* ends the attempt with FAILED_ADDR_REQUEST, with no frame sent and the
\* node's addresses still MESH_DEFAULT_ADDRESS.  A MESH_ADDR_CONFIRM
\* is sent only by a node in the confirmation, and a node joins only with the
\* address of the offer it took there.
C19_OfferValidation ==
    [][/\ \A n \in NodeIds :
            /\ ReadsOffer(n) =>
                  LET f == Head(inbox[n])
                  IN IF f.data # 0 /\ f.reserved = meshNodeID[n]
                     THEN /\ pc'[n] = "confirm"
                          /\ loc'[n].newAddress = f.data
                     ELSE /\ pc'[n] = "retry"
                          /\ oopsies'[n] = "FAILED_ADDR_REQUEST"
                          /\ inbox' = [inbox EXCEPT ![n] = Tail(@)]
                          /\ meshNetworkAddress'[n] = MESH_DEFAULT_ADDRESS
                          /\ netAddress'[n] = MESH_DEFAULT_ADDRESS
            /\ (pc[n] # "confirm" /\ pc'[n] = "confirm") => ReadsOffer(n)
            /\ (~Joined(n) /\ meshNetworkAddress'[n] # MESH_DEFAULT_ADDRESS) =>
                  /\ pc[n] = "confirm"
                  /\ meshNetworkAddress'[n] = loc[n].newAddress
       /\ ConfirmSent => \E n \in NodeIds : pc[n] = "confirm" /\ pc'[n] # "confirm"
      ]_vars

\* C19 witness: a node was handed an offer for another id, gave the attempt
\* up with FAILED_ADDR_REQUEST and is unjoined.
C19_Witness ==
    \E n \in NodeIds :
        /\ pc[n] = "retry" /\ oopsies[n] = "FAILED_ADDR_REQUEST"
        /\ ~Joined(n) /\ netAddress[n] = MESH_DEFAULT_ADDRESS
        /\ loc[n].newAddress = 0
        /\ \A y \in Procs : \A k \in 1..Len(inbox[y]) :
                inbox[y][k].msgType # "MESH_ADDR_CONFIRM"

(***************************************************************************)
(* C20: a request that names no requester.                                 *)
(***************************************************************************)
\* The step is the master's DHCP on a latched request whose reserved byte is 0.
DropsRequest ==
    /\ processDHCP[MESH_MASTER_NODE_ID]
    /\ DHCPFrame[MESH_MASTER_NODE_ID].msgType = "MESH_REQ_ADDRESS"
    /\ DHCPFrame[MESH_MASTER_NODE_ID].reserved = 0
    /\ DHCP(MESH_MASTER_NODE_ID, FALSE)

\* C20: the master's DHCP drops an address request whose reserved byte is
\* 0: no frame is sent and no wait for a confirmation starts, the pending
\* pair and the table are unchanged; only the latch is cleared.
C20_ZeroIdDropped ==
    [][DropsRequest =>
          /\ ~processDHCP'[MESH_MASTER_NODE_ID]
          /\ inbox' = inbox
          /\ pc' = pc /\ loc' = loc
          /\ lastID' = lastID /\ lastAddress' = lastAddress
          /\ addressList' = addressList
          /\ UNCHANGED <<meshNetworkAddress, netAddress, oopsies, DHCPFrame, ret>>
      ]_vars

\* C20 witness: the master, holding a binding and a pending pair, has
\* dropped a request with reserved byte 0.
C20_Witness ==
    /\ ~processDHCP[MESH_MASTER_NODE_ID]
    /\ DHCPFrame[MESH_MASTER_NODE_ID].msgType = "MESH_REQ_ADDRESS"
    /\ DHCPFrame[MESH_MASTER_NODE_ID].reserved = 0
    /\ pc[MESH_MASTER_NODE_ID] = "idle"
    /\ lastAddress # 0
    /\ addressList # << >>

(***************************************************************************)
(* C21: a request for which no slot is free.                               *)
(***************************************************************************)
\* The slot mask has no free child slot with an index in 1..MESH_MAX_CHILDREN.
NoFreeSlot(m) == \A k \in 1..MESH_MAX_CHILDREN : BitAnd(m, Pow2(k - 1)) # 0

\* The step is the master's DHCP on a latched request of a named requester
\* for which no slot is free or whose candidate address would be 0.
ServesFullParent ==
    LET h == DHCPFrame[MESH_MASTER_NODE_ID]
        m == AvailableAddr(MESH_MASTER_NODE_ID, h)
    IN /\ processDHCP[MESH_MASTER_NODE_ID]
       /\ h.msgType = "MESH_REQ_ADDRESS"
       /\ h.reserved # 0
       /\ NoFreeSlot(m) \/ NewAddress(h.data, m) = 0
       /\ DHCP(MESH_MASTER_NODE_ID, FALSE)

\* C21: when the slot mask of a request has no free slot in
\* 1..MESH_MAX_CHILDREN, or the candidate address would be 0, the master
\* sends no offer, starts no wait for a confirmation, and leaves the pending
\* pair and the table as they are.
C21_FullParentDropped ==
    [][ServesFullParent =>
          /\ inbox' = inbox
          /\ pc' = pc /\ loc' = loc
          /\ lastID' = lastID /\ lastAddress' = lastAddress
          /\ addressList' = addressList
      ]_vars

(***************************************************************************)
(* C22: a repeated request.                                                *)
(***************************************************************************)
\* The step is the master's DHCP answering the latched request of a named
\* requester.
AnswersRequest ==
    /\ processDHCP[MESH_MASTER_NODE_ID]
    /\ DHCPFrame[MESH_MASTER_NODE_ID].msgType = "MESH_REQ_ADDRESS"
    /\ DHCPFrame[MESH_MASTER_NODE_ID].reserved # 0
    /\ DHCP(MESH_MASTER_NODE_ID, FALSE) \/ DHCP(MESH_MASTER_NODE_ID, TRUE)

\* The latched request repeats the one answered last: the same requester id,
\* the same parent, the same slot mask.
RepeatsLastRequest ==
    LET h == DHCPFrame[MESH_MASTER_NODE_ID]
    IN /\ lastOffer.id = h.reserved
       /\ lastOffer.parentNode = h.data
       /\ lastOffer.availableAddr = AvailableAddr(MESH_MASTER_NODE_ID, h)

UpdateObserves(x) ==
    /\ Joined(x) /\ inbox[x] # << >>
    /\ Update(x, FALSE) \/ Update(x, TRUE)

\* The step is x's DHCP().
DHCPRuns(x) == DHCP(x, FALSE) \/ DHCP(x, TRUE)

\* C23: update() sets the latch, and latches the frame, exactly when the
\* frame it observes is a MESH_REQ_ADDRESS or a MESH_ADDR_RESPONSE; a set
\* latch and its frame stay as they are in every step that is neither such
\* an update() nor DHCP(); DHCP() clears a set latch, so that the latched
\* frame is processed once; DHCP() with a clear latch changes nothing.
C23_Latch ==
    [][\A x \in Procs :
          /\ UpdateObserves(x) =>
                IF Head(inbox[x]).msgType \in {"MESH_REQ_ADDRESS", "MESH_ADDR_RESPONSE"}
                THEN processDHCP'[x] /\ DHCPFrame'[x] = Head(inbox[x])
                ELSE processDHCP'[x] = processDHCP[x] /\ DHCPFrame'[x] = DHCPFrame[x]
          /\ (processDHCP[x] /\ ~DHCPRuns(x)) => processDHCP'[x]
          /\ (processDHCP[x] /\ ~DHCPRuns(x) /\ ~UpdateObserves(x)) =>
                DHCPFrame'[x] = DHCPFrame[x]
          /\ (~processDHCP[x] /\ processDHCP'[x]) => UpdateObserves(x)
          /\ (processDHCP[x] /\ DHCPRuns(x)) => ~processDHCP'[x]
          /\ (~processDHCP[x] /\ DHCPRuns(x)) => vars' = vars
      ]_vars

\* C23 witness: a node's update() has taken a request from its radio and
\* latched it, and its DHCP() has not run since.
C23_Witness ==
    \E x \in Procs \ {MESH_MASTER_NODE_ID} :
        /\ processDHCP[x]
        /\ DHCPFrame[x].msgType = "MESH_REQ_ADDRESS"
        /\ inbox[x] = << >>
        /\ pc[x] = "idle"

(***************************************************************************)
(* C24: what write hands to the network layer.                             *)
(***************************************************************************)
\* In this step a write of the joined object x returns.
WriteReturns(x) ==
    /\ Joined(x)
    /\ \/ \E id \in LookupIds : write(x, id, TRUE, MaxCalls)
       \/ WriteLookupRecv(x, TRUE)
       \/ WriteLookupTimeout(x, TRUE)
       \/ WriteRetry(x, TRUE)
    /\ pc'[x] = "idle"

\* C24: a write to node id 0 goes to address 0 with no lookup; a write to
\* another id whose resolution fails returns false, hands nothing to the
\* network layer and leaves the error FAILED_ADDR_LOOKUP.
C24_WriteResolution ==
    [][\A x \in Procs : WriteReturns(x) =>
          /\ ret'[x].arg = 0 => (pc[x] = "idle" /\ ret'[x].to = 0)
          /\ (ret'[x].arg # 0 /\ ret'[x].to = NoWrite) =>
                (~ret'[x].val /\ oopsies'[x] = "FAILED_ADDR_LOOKUP")
      ]_vars

(***************************************************************************)
(* C25: releaseAddress.                                                    *)
(***************************************************************************)
\* C25: releaseAddress on an unjoined node returns false with NOT_CONFIGURED
\* and sends nothing; on a joined node it returns true with both addresses
\* reset to MESH_DEFAULT_ADDRESS when the release was written, and false with
\* the error FAILED_WRITE and both addresses unchanged when it was not.
C25_Release ==
    [][\A n \in NodeIds : releaseAddress(n, FALSE, MaxCalls) =>
          IF ~Joined(n)
          THEN /\ ~ret'[n].val
               /\ oopsies'[n] = "NOT_CONFIGURED"
               /\ inbox' = inbox
          ELSE IF ret'[n].val
          THEN /\ meshNetworkAddress'[n] = MESH_DEFAULT_ADDRESS
               /\ netAddress'[n] = MESH_DEFAULT_ADDRESS
          ELSE /\ oopsies'[n] = "FAILED_WRITE"
               /\ meshNetworkAddress'[n] = meshNetworkAddress[n]
               /\ netAddress'[n] = netAddress[n]
      ]_vars

(***************************************************************************)
(* C26: checkConnection.                                                   *)
(***************************************************************************)
\* In this step the checkConnection of x returns.
CheckReturns(x) ==
    /\ CheckLoop(x, FALSE) \/ CheckPing(x, FALSE)
    /\ pc'[x] = "idle"

\* C26: checkConnection hands at most 3 pings to the network layer.  It
\* returns true exactly when, in one of its passes, the receive queue of the
\* radio is full, the hold flag is set, or the ping of that pass was written
\* with success; a pass that finds the queue full or the flag set returns at
\* once, without a ping.  Whenever it returns false the radio has been put
\* in standby; on an unjoined object it returns false with no ping sent.
C26_CheckConnection ==
    /\ [](\A x \in ClockProcs :
            /\ loc[x].op = "check" => loc[x].pings + loc[x].attempts <= 3
            /\ ret[x].op = "checkConnection" => ret[x].arg <= 3)
    /\ [][\A x \in ClockProcs :
            /\ CheckReturns(x) =>
                 /\ ret'[x].val <=>
                       /\ pc[x] = "checkPing"
                       /\ \/ rxFifoFull(x)
                          \/ loc[x].hold
                          \/ ret'[x].arg = loc[x].pings + 1
                 /\ ~ret'[x].val => ~listening'[x]
                 /\ ~Joined(x) => (~ret'[x].val /\ ret'[x].arg = 0)
            /\ (CheckPing(x, FALSE) /\ (rxFifoFull(x) \/ loc[x].hold)) =>
                 /\ pc'[x] = "idle" /\ ret'[x].val
                 /\ ret'[x].arg = loc[x].pings
                 /\ listening'[x] = listening[x]
        ]_vars

\* C26 witness: a joined object has called checkConnection; its three pings
\* failed, it returned false and the radio is in standby.
C26_Witness ==
    \E x \in ClockProcs :
        /\ Joined(x)
        /\ pc[x] = "idle"
        /\ ret[x] = Ret("checkConnection", 3, FALSE)
        /\ ~listening[x]

(***************************************************************************)
(* C27: begin.                                                             *)
(***************************************************************************)
\* C27: begin on the object with node id 0 makes it the master: afterwards
\* its mesh address is 0 and the binding table is empty, whatever the table
\* held before, and no join was attempted (no frame written, no operation
\* left in progress).
C27_BeginMaster ==
    [][Begin(MESH_MASTER_NODE_ID) =>
          /\ meshNetworkAddress'[MESH_MASTER_NODE_ID] = 0
          /\ netAddress'[MESH_MASTER_NODE_ID] = 0
          /\ addressList' = << >>
          /\ inbox' = inbox
          /\ pc'[MESH_MASTER_NODE_ID] = "idle"
      ]_vars

(***************************************************************************)
(* C28: the offered address.                                               *)
(***************************************************************************)
\* The lowest child slot that is free in mask m (bit 0 is slot 1).
LowestFreeSlotOf(m) ==
    CHOOSE k \in 1..MESH_MAX_CHILDREN :
        /\ BitAnd(m, Pow2(k - 1)) = 0
        /\ \A j \in 1..(k - 1) : BitAnd(m, Pow2(j - 1)) # 0

\* The number of non-zero octal digits of address p.
Depth(p) == Cardinality({i \in 1..Len(OctalDigits(p)) : OctalDigits(p)[i] # 0})

\* The latched request polls the master directly.
PolledDirectly(h) ==
    h.dstNode = MESH_MASTER_NODE_ID /\ h.srcNode = MESH_DEFAULT_ADDRESS

\* C28: for a request with parent p whose slot mask m has a free slot the
\* master offers p | (k << 3*depth(p)), k the lowest free slot of m; when
\* the master is polled directly p is 0 and m is its own child bit field.
C28_OfferedAddress ==
    [][AnswersRequest =>
          LET h == DHCPFrame[MESH_MASTER_NODE_ID]
              p == IF PolledDirectly(h) THEN 0 ELSE h.data
              m == IF PolledDirectly(h) THEN childBitField(MESH_MASTER_NODE_ID) ELSE h.bits
          IN ~NoFreeSlot(m) =>
                /\ lastAddress' = BitOr(p, ShiftLeft(LowestFreeSlotOf(m), 3 * Depth(p)))
                /\ PolledDirectly(h) => h.data = 0
      ]_vars

(***************************************************************************)
(* C29: the reply to a lookup.                                             *)
(***************************************************************************)
\* The step is the master's update() and the frame it takes is a lookup.
DispatchesLookup ==
    /\ Joined(MESH_MASTER_NODE_ID)
    /\ inbox[MESH_MASTER_NODE_ID] # << >>
    /\ Head(inbox[MESH_MASTER_NODE_ID]).msgType \in {"MESH_ADDR_LOOKUP", "MESH_ID_LOOKUP"}
    /\ Update(MESH_MASTER_NODE_ID, TRUE)

\* C29: for every MESH_ADDR_LOOKUP or MESH_ID_LOOKUP that the master's
\* update() dispatches the master writes exactly one reply, of the message
\* type of the request, addressed to the node that sent the request: that
\* node receives one frame and no other node receives any.
C29_LookupReply ==
    [][DispatchesLookup =>
          LET f == Head(inbox[MESH_MASTER_NODE_ID]) IN
          \A y \in Procs \ {MESH_MASTER_NODE_ID} :
              IF netAddress[y] = f.srcNode /\ Len(inbox[y]) < MaxInbox
              THEN /\ Len(inbox'[y]) = Len(inbox[y]) + 1
                   /\ SubSeq(inbox'[y], 1, Len(inbox[y])) = inbox[y]
                   /\ inbox'[y][Len(inbox'[y])].msgType = f.msgType
                   /\ inbox'[y][Len(inbox'[y])].dstNode = f.srcNode
              ELSE inbox'[y] = inbox[y]
      ]_vars

(***************************************************************************)
(* C30: the answer to a reverse lookup.                                    *)
(***************************************************************************)
\* The step is the master's update() and the frame it takes is a
\* MESH_ID_LOOKUP.
DispatchesIdLookup ==
    /\ Joined(MESH_MASTER_NODE_ID)
    /\ inbox[MESH_MASTER_NODE_ID] # << >>
    /\ Head(inbox[MESH_MASTER_NODE_ID]).msgType = "MESH_ID_LOOKUP"
    /\ Update(MESH_MASTER_NODE_ID, FALSE)

\* C30: the value the master answers to a MESH_ID_LOOKUP that carries the
\* 16-bit address a is the local reverse lookup of the whole of a: the id
\* bound to a, or -1 when none is, also for a >= 256.
C30_ReverseLookupWide ==
    [][DispatchesIdLookup =>
          LET f == Head(inbox[MESH_MASTER_NODE_ID]) IN
          LookupReply(addressList, f, MESH_MASTER_NODE_ID).data =
              ToUint16(getNodeIDMaster(addressList, MESH_MASTER_NODE_ID, f.data))
      ]_vars

(***************************************************************************)
(* C31: the order of the steps of a join.                                  *)
(***************************************************************************)
\* n is inside a join attempt of renewAddress.
Joining(n) == pc[n] \in {"poll", "collect", "request", "waitresp", "confirm", "retry"}

\* C31: from the start of renewAddress until a MESH_ADDR_CONFIRM was written
\* with success the node's mesh address and network address are
\* MESH_DEFAULT_ADDRESS; they leave it only in the step in which the
\* confirmation is written with success, and become the address of the
\* offer that was accepted.
C31_AdoptAfterConfirm ==
    /\ [](\A n \in NodeIds : Joining(n) =>
              /\ meshNetworkAddress[n] = MESH_DEFAULT_ADDRESS
              /\ netAddress[n] = MESH_DEFAULT_ADDRESS)
    /\ [][\A n \in NodeIds :
            (meshNetworkAddress'[n] # MESH_DEFAULT_ADDRESS
                /\ meshNetworkAddress'[n] # meshNetworkAddress[n]) =>
               /\ Confirm(n, FALSE)
               /\ pc'[n] = "idle" /\ ret'[n].val = TRUE
               /\ meshNetworkAddress'[n] = loc[n].newAddress
               /\ netAddress'[n] = loc[n].newAddress
        ]_vars

\* C31 witness: a renewAddress has returned true and the node holds, as its
\* mesh address and its network address, the address of the offer it
\* confirmed.
C31_Witness ==
    \E n \in NodeIds :
        /\ pc[n] = "idle"
        /\ ret[n].op = "renewAddress" /\ ret[n].val = TRUE
        /\ meshNetworkAddress[n] = ret[n].arg
        /\ netAddress[n] = ret[n].arg
        /\ ret[n].arg # MESH_DEFAULT_ADDRESS

(***************************************************************************)
(* C32: the poll and the requests of one join attempt.                     *)
(***************************************************************************)
\* The contact the loop over the recorded answers stands at.
CurrentContact(x) == loc[x].pollNodes[loc[x].i]

\* C32: a join attempt records at most MESH_MAXPOLLS poll answers, each at
\* an index inside the buffer; it stops collecting at the poll deadline or
\* with the MESH_MAXPOLLS-th answer, and fails with POLL_FAIL exactly when
\* it recorded none; it writes MESH_REQ_ADDRESS only to a recorded contact
\* whose address is valid; the first MESH_ADDR_RESPONSE ends the loop over
\* the contacts, with that contact as contactNode; when the contacts are
\* used up without one the attempt fails with NO_RESPONSE.
C32_PollAndRequest ==
    /\ [](\A x \in ClockProcs :
            loc[x].op = "renew" => Len(loc[x].pollNodes) <= MESH_MAXPOLLS)
    /\ [][\A x \in ClockProcs :
            /\ (\E a \in PollSources : PollRecv(x, a)) =>
                  Len(loc[x].pollNodes) + 1 <= MESH_MAXPOLLS
            /\ (pc[x] = "collect" /\ pc'[x] # "collect") =>
                  /\ PollDeadline(x) \/ Len(loc'[x].pollNodes) = MESH_MAXPOLLS
                  /\ IF Len(loc'[x].pollNodes) = 0
                     THEN pc'[x] = "retry" /\ oopsies'[x] = "POLL_FAIL"
                     ELSE pc'[x] = "request" /\ oopsies'[x] = oopsies[x]
            /\ (Request(x, FALSE) /\ (pc'[x] = "waitresp" \/ inbox' # inbox)) =>
                  /\ loc[x].i \in 1..Len(loc[x].pollNodes)
                  /\ isValidNetworkAddress(CurrentContact(x))
                  /\ \A y \in Procs : inbox'[y] # inbox[y] =>
                        /\ netAddress[y] = CurrentContact(x)
                        /\ inbox'[y] = Append(inbox[y], inbox'[y][Len(inbox'[y])])
                        /\ inbox'[y][Len(inbox'[y])].msgType = "MESH_REQ_ADDRESS"
                        /\ inbox'[y][Len(inbox'[y])].dstNode = CurrentContact(x)
            /\ (WaitRespRecv(x) /\ Head(inbox[x]).msgType = "MESH_ADDR_RESPONSE") =>
                  /\ pc'[x] \in {"confirm", "retry"}
                  /\ loc'[x].contactNode = CurrentContact(x)
            /\ (pc[x] = "request" /\ pc'[x] = "retry") =>
                  /\ loc[x].i > Len(loc[x].pollNodes)
                  /\ oopsies'[x] = "NO_RESPONSE"
        ]_vars

\* C32 witness: the node recorded MESH_MAXPOLLS answers, one of them from
\* an address that is not valid, and is waiting for the offer through a
\* contact that is not the first of its buffer.
C32_Witness ==
    \E x \in ClockProcs :
        /\ pc[x] = "waitresp"
        /\ Len(loc[x].pollNodes) = MESH_MAXPOLLS
        /\ \E k \in 1..MESH_MAXPOLLS : ~isValidNetworkAddress(loc[x].pollNodes[k])
        /\ loc[x].i > 1

(***************************************************************************)
(* C33: the level polled and the backoff of renewAddress.                  *)
(***************************************************************************)
\* C33: in a renewAddress call the attempt after j failed ones polls level
\* j mod 4, the backoff slept after the j-th failed attempt is
\* 50 + 2 * ((j mod 10) + 1) * ((j mod 4) + 1) ms, which lies in 52..130,
\* and reqCounter stays in 0..3 and totalReqs in 0..9.
C33_LevelAndBackoff ==
    /\ [](\A x \in ClockProcs :
            loc[x].op = "renew" =>
               /\ loc[x].reqCounter \in 0..3
               /\ loc[x].totalReqs \in 0..9)
    /\ [][\A x \in ClockProcs :
            /\ PollStart(x) => loc'[x].level = loc[x].attempt % 4
            /\ (pc[x] = "retry" /\ pc'[x] = "poll") =>
                  /\ loc'[x].attempt = loc[x].attempt + 1
                  /\ loc'[x].delay =
                        50 + 2 * ((loc[x].attempt % 10) + 1) * ((loc[x].attempt % 4) + 1)
                  /\ loc'[x].delay \in 52..130
        ]_vars

\* C33 witness: a call has failed more attempts than both counters count
\* before they wrap, and polls again.
C33_Witness ==
    \E x \in ClockProcs :
        /\ pc[x] = "collect"
        /\ loc[x].attempt > 20
        /\ loc[x].level = loc[x].attempt % 4
        /\ loc[x].delay > 0

(***************************************************************************)
(* C34: a joined node forwards a latched request to the master.            *)
(***************************************************************************)
\* DHCP of the joined non-master x consumes a latched MESH_REQ_ADDRESS that
\* names a requester.
ForwardsRequest(x) ==
    /\ x # MESH_MASTER_NODE_ID
    /\ Joined(x)
    /\ processDHCP[x]
    /\ DHCPFrame[x].msgType = "MESH_REQ_ADDRESS"
    /\ DHCPFrame[x].reserved # 0
    /\ DHCP(x, FALSE)

\* The frame x hands to network.write when it forwards request h.
Forwarded(x, h) ==
    [msgType |-> "MESH_REQ_ADDRESS", srcNode |-> netAddress[x],
     dstNode |-> MESH_MASTER_NODE_ID, reserved |-> h.reserved, data |-> h.data,
     bits |-> IF h.data = netAddress[x] THEN childBitField(x) ELSE h.bits]

\* C34: when DHCP of a joined non-master consumes a latched
\* MESH_REQ_ADDRESS, the only frame written is the request addressed to the
\* master, with the node's own address as source, the requester id and the
\* parent address as they came, and the node's child bit field at offset 3
\* exactly when the parent address is the node's own (the byte stays as it
\* came otherwise); the latch is cleared, no address is offered or bound,
\* and the node's addresses, error indicator and position stay as they are.
C34_ForwardToMaster ==
    [][\A x \in NodeIds :
          ForwardsRequest(x) =>
             /\ \A y \in Procs :
                   \/ inbox'[y] = inbox[y]
                   \/ /\ netAddress[y] = MESH_MASTER_NODE_ID
                      /\ inbox'[y] = Append(inbox[y], Forwarded(x, DHCPFrame[x]))
             /\ ~processDHCP'[x]
             /\ UNCHANGED <<addressList, lastID, lastAddress, lastOffer>>
             /\ UNCHANGED <<meshNetworkAddress, netAddress, oopsies, pc, loc, ret>>
      ]_vars

\* C34 witness: the master has received two forwarded requests of one node,
\* one carrying the node's child bit field in place of the byte that came,
\* one carrying the byte that came because the parent is another node.
C34_Witness ==
    \E x \in NodeIds :
        /\ Joined(x)
        /\ \E j, k \in 1..Len(inbox[MESH_MASTER_NODE_ID]) :
              LET f == inbox[MESH_MASTER_NODE_ID][j]
                  g == inbox[MESH_MASTER_NODE_ID][k]
              IN /\ f.msgType = "MESH_REQ_ADDRESS" /\ g.msgType = "MESH_REQ_ADDRESS"
                 /\ f.srcNode = netAddress[x] /\ g.srcNode = netAddress[x]
                 /\ f.reserved \in EnvIds /\ g.reserved \in EnvIds
                 /\ f.data = netAddress[x] /\ f.bits = childBitField(x)
                 /\ g.data # netAddress[x] /\ g.bits # childBitField(x)

C36_UnjoinedSilent ==
    [][\A x \in Procs :
          ~Joined(x) =>
             /\ Update(x, FALSE) =>
                   /\ oopsies'[x] = "NOT_CONFIGURED"
                   /\ UNCHANGED <<inbox, processDHCP, DHCPFrame, addressList,
                                  lastID, lastAddress>>
             /\ (Update(x, FALSE) \/ DHCP(x, FALSE)) => inbox' = inbox
      ]_vars

(***************************************************************************)
(* C37: BYPASS_HOLDS.                                                      *)
(***************************************************************************)
\* C37: BYPASS_HOLDS of an object is set exactly while the object is inside
\* a renewAddress call that went past the test of radio.available(): the
\* only step that sets it is the start of such a call, and every step that
\* ends the call, with success or with TIMEOUT, clears it.
C37_BypassHolds ==
    /\ [](\A x \in ClockProcs : bypassHolds[x] <=> Joining(x))
    /\ [][\A x \in ClockProcs :
            /\ (~bypassHolds[x] /\ bypassHolds'[x]) =>
                  RenewStart(x, MaxCallsReliable) /\ inbox[x] = << >>
            /\ (Joining(x) /\ pc'[x] = "idle") =>
                  /\ ret'[x].op = "renewAddress"
                  /\ ret'[x].val = TRUE \/ oopsies'[x] = "TIMEOUT"
                  /\ ~bypassHolds'[x]
        ]_vars

\* C37 witness: a node has left renewAddress once with TIMEOUT and once
\* with success, the flag is clear, and the master never had it set.
C37_Witness ==
    \E x \in NodeIds :
        /\ pc[x] = "idle"
        /\ ret[x].op = "renewAddress" /\ ret[x].val = TRUE
        /\ oopsies[x] = "TIMEOUT"
        /\ ~bypassHolds[x]
        /\ ~bypassHolds[MESH_MASTER_NODE_ID]

(***************************************************************************)
(* C38: two requests observed before DHCP() runs.                          *)
(***************************************************************************)
\* The latch of x holds a MESH_REQ_ADDRESS that DHCP() has not processed.
RequestLatched(x) ==
    processDHCP[x] /\ DHCPFrame[x].msgType = "MESH_REQ_ADDRESS"

\* C38: when update() observes a MESH_REQ_ADDRESS while the latch still
\* holds an earlier one, the latch holds the later frame afterwards and the
\* earlier one is gone; the DHCP() that follows clears the latch and what
\* it writes is one frame, for the requester of the latched request: the
\* master's offer is made for that requester and no other.
C38_LatchOverwritten ==
    [][\A x \in Procs :
          /\ (RequestLatched(x) /\ UpdateObserves(x)
                /\ Head(inbox[x]).msgType = "MESH_REQ_ADDRESS") =>
                /\ processDHCP'[x]
                /\ DHCPFrame'[x] = Head(inbox[x])
          /\ (RequestLatched(x) /\ DHCPRuns(x)) =>
                /\ ~processDHCP'[x]
                /\ \A y \in Procs : inbox'[y] # inbox[y] =>
                      /\ Len(inbox'[y]) = Len(inbox[y]) + 1
                      /\ inbox'[y] = Append(inbox[y], inbox'[y][Len(inbox'[y])])
                      /\ inbox'[y][Len(inbox'[y])].reserved = DHCPFrame[x].reserved
                /\ lastOffer' # lastOffer =>
                      /\ lastOffer'.id = DHCPFrame[x].reserved
                      /\ lastOffer'.lastID = DHCPFrame[x].srcNode
      ]_vars

\* C38 witness: two nodes have each written a request to the master and
\* wait for the offer; the master's update() has observed both, its DHCP()
\* has made no offer yet, and the latch holds the request of one of them.
C38_Witness ==
    \E a, b \in NodeIds :
        /\ a # b
        /\ pc[a] = "waitresp" /\ CurrentContact(a) = MESH_MASTER_NODE_ID
        /\ pc[b] = "waitresp" /\ CurrentContact(b) = MESH_MASTER_NODE_ID
        /\ inbox[MESH_MASTER_NODE_ID] = << >>
        /\ lastOffer = NoOffer
        /\ RequestLatched(MESH_MASTER_NODE_ID)
        /\ DHCPFrame[MESH_MASTER_NODE_ID].reserved = a

(***************************************************************************)
(* C39: frames that arrive while the master waits for a confirmation.      *)
(***************************************************************************)
\* The step is the wait loop of the master taking a frame that is not a
\* MESH_ADDR_CONFIRM.
WaitTakesOther ==
    /\ inbox[MESH_MASTER_NODE_ID] # << >>
    /\ Head(inbox[MESH_MASTER_NODE_ID]).msgType # "MESH_ADDR_CONFIRM"
    /\ AssignWaitRecv(MESH_MASTER_NODE_ID)

\* C39: a frame other than MESH_ADDR_CONFIRM that the master's wait loop
\* takes is consumed and nothing else happens: no frame is written, the
\* binding table, the pending pair, the latch and the error indicator are
\* as before, and the master goes on waiting.
C39_WaitConsumes ==
    [][WaitTakesOther =>
          /\ inbox' = [inbox EXCEPT ![MESH_MASTER_NODE_ID] = Tail(@)]
          /\ pc'[MESH_MASTER_NODE_ID] = "waitConfirm"
          /\ UNCHANGED <<addressList, lastID, lastAddress, lastOffer, processDHCP,
                         DHCPFrame, oopsies>>
      ]_vars

\* C39 witness: the master waits for a confirmation and its wait loop has
\* taken the release of the node at an address the table still binds.
C39_Witness ==
    /\ pc[MESH_MASTER_NODE_ID] = "waitConfirm"
    /\ loc[MESH_MASTER_NODE_ID].other = "MESH_ADDR_RELEASE"
    /\ \E i \in 1..Len(addressList) : addressList[i].logicalAddress = 1

(***************************************************************************)
(* C40: the error indicator is never cleared.                              *)
(***************************************************************************)
\* In this step a renewAddress or releaseAddress call of x returns true.
ReturnsSuccess(x) ==
    /\ pc'[x] = "idle"
    /\ pc[x] # "idle" \/ ret'[x] # ret[x]
    /\ ret'[x].op \in {"renewAddress", "releaseAddress"}
    /\ ret'[x].val = TRUE

=============================================================================
